---- MODULE Spec2Model ----
(***************************************************************************)
(* flake8-logging: the AST visitor of src/flake8_logging/__init__.py.      *)
(*                                                                         *)
(* The state is that of one Plugin.run(): the tree handed to the plugin,   *)
(* the Visitor's fields (errors, _logging_name, _logger_name,              *)
(* _from_imports, _stack) and the position of run() itself.  One action    *)
(* per visit_* handler, one for generic_visit's dispatch of a node without *)
(* handler, one for the pop that ends Visitor.visit, and the generator     *)
(* steps of Plugin.run.                                                    *)
(*                                                                         *)
(* Conventions.                                                            *)
(*  - An AST node is a record with a "kind" field and the fields of the    *)
(*    ast class that the visitor reads.  The singleton children            *)
(*    (expr_context, operator, arguments) are leaves that no handler and   *)
(*    no stack query looks at; they are not represented.                   *)
(*  - Identifiers (Name.id, Attribute.attr, alias.name, ...) are strings.  *)
(*    The value of a string literal and the name of a keyword argument are *)
(*    sequences of one-character strings, because the placeholder regular  *)
(*    expressions read them character by character.                        *)
(*  - (lineno, col_offset) of a node is modelled by the path of child      *)
(*    indices that leads from the root to the first token of the node: a   *)
(*    call, an attribute access, a binary operation or an expression       *)
(*    statement starts where its leftmost operand starts, so these share   *)
(*    their position with it, as they do in the parser's output.           *)
(*  - A diagnostic message is the sequence of the pieces that str.format   *)
(*    joins; the first piece is the rule code.                             *)
(***************************************************************************)
EXTENDS Integers, Sequences, FiniteSets, TLC

VARIABLES tree, version_ge_310, hash_seed, pc, stack, errors, logging_name,
          logger_name, from_imports, yielded, run, previous, expr, flattened, add_chain

vars == <<tree, version_ge_310, hash_seed, pc, stack, errors, logging_name,
          logger_name, from_imports, yielded, run, previous, expr, flattened, add_chain>>

\* A helper called on its own, as the tests of the helpers do: its argument and what
\* flatten_str_chain and is_add_chain_with_non_str returned (no entry before the call).
helper == <<expr, flattened, add_chain>>

\* What no step of an analysis changes: its input, the interpreter, and the results of
\* the runs before it.
fixed == <<tree, version_ge_310, hash_seed, run, previous, helper>>

\* Python's None, where the code holds an optional identifier.
None == "None"

(***************************************************************************)
(* AST nodes                                                               *)
(***************************************************************************)
Module(body) == [kind |-> "Module", body |-> body]
FunctionDef(body) == [kind |-> "FunctionDef", body |-> body]
AsyncFunctionDef(body) == [kind |-> "AsyncFunctionDef", body |-> body]
ClassDef(body) == [kind |-> "ClassDef", body |-> body]
Try(body, handlers) == [kind |-> "Try", body |-> body, handlers |-> handlers]
Name(id) == [kind |-> "Name", id |-> id]
ExceptHandler(name, body) ==
    [kind |-> "ExceptHandler", type |-> Name("Exception"), name |-> name, body |-> body]
alias(name, asname) == [kind |-> "alias", name |-> name, asname |-> asname]
Import(names) == [kind |-> "Import", names |-> names]
ImportFrom(module, level, names) ==
    [kind |-> "ImportFrom", module |-> module, level |-> level, names |-> names]
Assign(targets, value) == [kind |-> "Assign", targets |-> targets, value |-> value]
Expr(value) == [kind |-> "Expr", value |-> value]
Call(func, args, keywords) ==
    [kind |-> "Call", func |-> func, args |-> args, keywords |-> keywords]
keyword(arg, value) == [kind |-> "keyword", arg |-> arg, value |-> value]
Attribute(value, attr) == [kind |-> "Attribute", value |-> value, attr |-> attr]
Str(s) == [kind |-> "Constant", ctype |-> "str", s |-> s, n |-> 0]
Bytes(s) == [kind |-> "Constant", ctype |-> "bytes", s |-> s, n |-> 0]
Num(n) == [kind |-> "Constant", ctype |-> "int", s |-> <<>>, n |-> n]
Bool(b) == [kind |-> "Constant", ctype |-> "bool", s |-> <<>>, n |-> IF b THEN 1 ELSE 0]
NoneConst == [kind |-> "Constant", ctype |-> "NoneType", s |-> <<>>, n |-> 0]
Dict(keys, values) == [kind |-> "Dict", keys |-> keys, values |-> values]
BinOp(left, op, right) == [kind |-> "BinOp", left |-> left, op |-> op, right |-> right]
JoinedStr == [kind |-> "JoinedStr"]
Pass == [kind |-> "Pass"]
Starred(value) == [kind |-> "Starred", value |-> value]
\* The None that ast.Dict.keys holds for a ** unpacking, and keyword.arg for **kwargs.
NoKey == [kind |-> "NoKey"]
NoArg == <<>>

\* bool(constant.value)
Truthy(c) ==
    CASE c.ctype \in {"str", "bytes"} -> c.s # <<>>
      [] c.ctype \in {"int", "bool"} -> c.n # 0
      [] OTHER -> FALSE

\* isinstance(node, ast.Constant) and isinstance(node.value, str)
IsStrConstant(node) == node.kind = "Constant" /\ node.ctype = "str"

RECURSIVE SelectNodes(_)
\* The entries of an ast.Dict's keys that are nodes.
SelectNodes(keys) ==
    IF keys = <<>> THEN <<>>
    ELSE IF Head(keys).kind = "NoKey" THEN SelectNodes(Tail(keys))
    ELSE <<Head(keys)>> \o SelectNodes(Tail(keys))

\* ast.iter_child_nodes: the child nodes in the order of the class's _fields.
Children(node) ==
    CASE node.kind \in {"Module", "FunctionDef", "AsyncFunctionDef", "ClassDef"} -> node.body
      [] node.kind = "Try" -> node.body \o node.handlers
      [] node.kind = "ExceptHandler" -> <<node.type>> \o node.body
      [] node.kind \in {"Import", "ImportFrom"} -> node.names
      [] node.kind = "Assign" -> node.targets \o <<node.value>>
      [] node.kind \in {"Expr", "keyword", "Attribute", "Starred"} -> <<node.value>>
      [] node.kind = "Call" -> <<node.func>> \o node.args \o node.keywords
      [] node.kind = "Dict" -> SelectNodes(node.keys) \o node.values
      [] node.kind = "BinOp" -> <<node.left, node.right>>
      [] OTHER -> <<>>

RECURSIVE Pos(_, _)
\* (lineno, col_offset) of the node found at `path`: the path of its first token.
Pos(node, path) ==
    IF node.kind \in {"Call", "Attribute", "BinOp", "Expr", "Assign"}
    THEN Pos(Children(node)[1], Append(path, 1))
    ELSE path

(***************************************************************************)
(* Module constants                                                        *)
(***************************************************************************)
logger_methods ==
    {"debug", "info", "warn", "warning", "error", "critical", "log", "exception"}

logrecord_attributes ==
    { <<"a","s","c","t","i","m","e">>, <<"a","r","g","s">>,
      <<"c","r","e","a","t","e","d">>, <<"e","x","c","_","i","n","f","o">>,
      <<"e","x","c","_","t","e","x","t">>, <<"f","i","l","e","n","a","m","e">>,
      <<"f","u","n","c","N","a","m","e">>, <<"l","e","v","e","l","n","a","m","e">>,
      <<"l","e","v","e","l","n","o">>, <<"l","i","n","e","n","o">>,
      <<"m","e","s","s","a","g","e">>, <<"m","o","d","u","l","e">>,
      <<"m","s","e","c","s">>, <<"m","s","g">>, <<"n","a","m","e">>,
      <<"p","a","t","h","n","a","m","e">>, <<"p","r","o","c","e","s","s">>,
      <<"p","r","o","c","e","s","s","N","a","m","e">>,
      <<"r","e","l","a","t","i","v","e","C","r","e","a","t","e","d">>,
      <<"s","t","a","c","k","_","i","n","f","o">>, <<"t","a","s","k","N","a","m","e">>,
      <<"t","h","r","e","a","d">>, <<"t","h","r","e","a","d","N","a","m","e">> }

LOG002_names == {"__cached__", "__file__"}

LOG001 == <<"LOG001", " use logging.getLogger() to instantiate loggers">>
LOG002 == <<"LOG002", " use __name__ with getLogger()">>
LOG004 == <<"LOG004", " avoid exception() outside of exception handlers">>
LOG005 == <<"LOG005", " use exception() within an exception handler">>
LOG006 == <<"LOG006", " redundant exc_info argument for exception()">>
LOG007 == <<"LOG007", " use error() instead of exception() with exc_info=False">>
LOG008 == <<"LOG008", " warn() is deprecated, use warning() instead">>
LOG009 == <<"LOG009", " WARN is undocumented, use WARNING instead">>
LOG010 == <<"LOG010", " exception() does not take an exception">>
LOG011 == <<"LOG011", " avoid pre-formatting log messages">>
LOG014 == <<"LOG014", " avoid exc_info=True outside of exception handlers">>
LOG015 == <<"LOG015", " avoid logging calls on the root logger">>

\* repr() of a str without quote or backslash characters.
Repr(s) == <<"'">> \o s \o <<"'">>

RECURSIVE JoinKeys(_)
\* ", ".join([repr(k) for k in keys])
JoinKeys(keys) ==
    IF keys = <<>> THEN <<>>
    ELSE IF Len(keys) = 1 THEN Repr(keys[1])
    ELSE Repr(keys[1]) \o <<", ">> \o JoinKeys(Tail(keys))

LOG003(key) == <<"LOG003", " extra key ">> \o Repr(key) \o <<" clashes with LogRecord attribute">>

LOG012(n, m) ==
    <<"LOG012", " formatting error: ", ToString(n), " ", "%", " placeholder",
      IF n # 1 THEN "s" ELSE "", " but ", ToString(m), " argument",
      IF m # 1 THEN "s" ELSE "">>

\* LOG013 with the plural whatever the number of keys.
LOG013_plural(mistake, keys) ==
    <<"LOG013", " formatting error: ", mistake, " key", "s", ": ">> \o JoinKeys(keys)

LOG013(mistake, keys) ==
    <<"LOG013", " formatting error: ", mistake, " key",
      IF Len(keys) # 1 THEN "s" ELSE "", ": ">> \o JoinKeys(keys)

\* The keyword names visit_Call looks for.
kw_extra == <<"e","x","t","r","a">>
kw_exc_info == <<"e","x","c","_","i","n","f","o">>
kw_msg == <<"m","s","g">>

Diag(pos, msg) == [pos |-> pos, msg |-> msg]
(***************************************************************************)
(* Placeholder matchers (modpos_placeholder_re, modnamed_placeholder_re)   *)
(*                                                                         *)
(* Both patterns are matched by one left-to-right greedy scan.  This is    *)
(* what the backtracking matcher returns: a character that a greedy group  *)
(* gives back can only be taken by the next digit group (a "0" flag read   *)
(* as width), which ends at the same place, and no character of the        *)
(* optional groups is a conversion type.                                   *)
(***************************************************************************)
FlagChars == {"-", "#", "0", " ", "+"}
DigitChars == {"0", "1", "2", "3", "4", "5", "6", "7", "8", "9"}
LengthChars == {"h", "l", "L"}
ConversionChars ==
    {"a", "c", "d", "e", "E", "f", "F", "g", "G", "i", "o", "r", "s", "u", "x", "X"}

\* s[i], or "" past the end of s.
At(s, i) == IF i >= 1 /\ i <= Len(s) THEN s[i] ELSE ""

RECURSIVE SkipWhile(_, _, _)
\* The first index from i on whose character is not in chars.
SkipWhile(s, i, chars) ==
    IF At(s, i) \in chars THEN SkipWhile(s, i + 1, chars) ELSE i

\* [hlL]? [acdeEfFgGiorsuxX] at i: the index after the match, or 0.
EndOfConversion(s, i) ==
    LET j == IF At(s, i) \in LengthChars THEN i + 1 ELSE i
    IN IF At(s, j) \in ConversionChars THEN j + 1 ELSE 0

\* modpos_placeholder_re matched at i.
\* [ok, end (index after the match), spec (is m["spec"] == "%"), minwidth, precision
\* (are they the asterisk form)].
modpos_match(s, i) ==
    LET nomatch == [ok |-> FALSE, end |-> i, raw |-> FALSE, minwidth |-> FALSE,
                    precision |-> FALSE]
    IN IF At(s, i) # "%" THEN nomatch
       ELSE IF At(s, i + 1) = "%"
       THEN [ok |-> TRUE, end |-> i + 2, raw |-> TRUE, minwidth |-> FALSE,
             precision |-> FALSE]
       ELSE LET f == SkipWhile(s, i + 1, FlagChars)
                wstar == At(s, f) = "*"
                w == IF wstar THEN f + 1 ELSE SkipWhile(s, f, DigitChars)
                pstar == At(s, w) = "." /\ At(s, w + 1) = "*"
                p == IF pstar THEN w + 2
                     ELSE IF At(s, w) = "." /\ At(s, w + 1) \in DigitChars
                     THEN SkipWhile(s, w + 1, DigitChars)
                     ELSE w
                e == EndOfConversion(s, p)
            IN IF e = 0 THEN nomatch
               ELSE [ok |-> TRUE, end |-> e, raw |-> FALSE, minwidth |-> wstar,
                     precision |-> pstar]

RECURSIVE modpos_count_without_stars(_, _)
\* The count with one argument for a placeholder whatever its width and precision.
modpos_count_without_stars(s, i) ==
    IF i > Len(s) THEN 0
    ELSE LET m == modpos_match(s, i)
         IN IF ~m.ok THEN modpos_count_without_stars(s, i + 1)
            ELSE (IF m.raw THEN 0 ELSE 1) + modpos_count_without_stars(s, m.end)

RECURSIVE modpos_count_from(_, _)
\* sum(1 + (m["minwidth"] == "*") + (m["precision"] == ".*")
\*     for m in modpos_placeholder_re().finditer(msg) if m["spec"] != "%")
modpos_count_from(s, i) ==
    IF i > Len(s) THEN 0
    ELSE LET m == modpos_match(s, i)
         IN IF ~m.ok THEN modpos_count_from(s, i + 1)
            ELSE (IF m.raw THEN 0
                  ELSE 1 + (IF m.minwidth THEN 1 ELSE 0) + (IF m.precision THEN 1 ELSE 0))
                 + modpos_count_from(s, m.end)

modpos_count(s) == modpos_count_from(s, 1)

\* The rest of modnamed_placeholder_re after the closing parenthesis, at i: the index
\* after the match, or 0.
EndOfNamedSuffix(s, i) ==
    LET f == SkipWhile(s, i, FlagChars)
        w == SkipWhile(s, f, DigitChars)
        p == IF At(s, w) = "." /\ At(s, w + 1) \in DigitChars
             THEN SkipWhile(s, w + 1, DigitChars)
             ELSE w
    IN EndOfConversion(s, p)

RECURSIVE NamedClose(_, _)
\* The lazy (?P<name>.*?)\): the first closing parenthesis from j on after which the
\* rest of the pattern matches, or 0.
NamedClose(s, j) ==
    IF j > Len(s) \/ At(s, j) = "\n" THEN 0
    ELSE IF At(s, j) = ")" /\ EndOfNamedSuffix(s, j + 1) # 0 THEN j
    ELSE NamedClose(s, j + 1)

\* modnamed_placeholder_re matched at i: [ok, end, name].
modnamed_match(s, i) ==
    LET c == IF At(s, i) = "%" /\ At(s, i + 1) = "(" THEN NamedClose(s, i + 2) ELSE 0
    IN IF c = 0 THEN [ok |-> FALSE, end |-> i, name |-> <<>>]
       ELSE [ok |-> TRUE, end |-> EndOfNamedSuffix(s, c + 1),
             name |-> SubSeq(s, i + 2, c - 1)]

RECURSIVE modnames_from(_, _)
\* {m["name"] for m in modnamed_placeholder_re().finditer(msg)}
modnames_from(s, i) ==
    IF i > Len(s) THEN {}
    ELSE LET m == modnamed_match(s, i)
         IN IF m.ok THEN {m.name} \cup modnames_from(s, m.end)
            ELSE modnames_from(s, i + 1)

modnames(s) == modnames_from(s, 1)

(***************************************************************************)
(* String-chain helpers                                                    *)
(***************************************************************************)
RECURSIVE is_add_chain_with_non_str(_)
is_add_chain_with_non_str(node) ==
    LET non_str(side) ==
            IF side.kind = "BinOp" THEN is_add_chain_with_non_str(side)
            ELSE ~IsStrConstant(side)
    IN IF node.op # "Add" THEN FALSE
       ELSE non_str(node.left) \/ non_str(node.right)

RECURSIVE flatten_visit_any_constant(_)
\* The inner visit taking every constant, bytes included, for a string.
flatten_visit_any_constant(node) ==
    IF node.kind = "Constant" THEN [ok |-> TRUE, parts |-> node.s]
    ELSE IF node.kind = "BinOp" /\ node.op = "Add"
    THEN LET l == flatten_visit_any_constant(node.left)
         IN IF ~l.ok THEN l
            ELSE LET r == flatten_visit_any_constant(node.right)
                 IN [ok |-> r.ok, parts |-> l.parts \o r.parts]
    ELSE [ok |-> FALSE, parts |-> <<>>]

RECURSIVE flatten_visit(_)
\* The inner visit of flatten_str_chain: [ok (its return value), parts (the text
\* appended to parts, joined)].
flatten_visit(node) ==
    IF IsStrConstant(node) THEN [ok |-> TRUE, parts |-> node.s]
    ELSE IF node.kind = "BinOp" /\ node.op = "Add"
    THEN LET l == flatten_visit(node.left)
         IN IF ~l.ok THEN l
            ELSE LET r == flatten_visit(node.right)
                 IN [ok |-> r.ok, parts |-> l.parts \o r.parts]
    ELSE [ok |-> FALSE, parts |-> <<>>]

\* flatten_str_chain: [some (is the result not None), text].
flatten_str_chain(node) ==
    LET r == flatten_visit(node)
    IN IF ~r.ok THEN [some |-> FALSE, text |-> <<>>]
       ELSE [some |-> TRUE, text |-> r.parts]
(***************************************************************************)
(* Visitor: the stack queries                                              *)
(***************************************************************************)
Frame(node, path) == [node |-> node, path |-> path, next |-> 0]

FunctionKinds == {"FunctionDef", "AsyncFunctionDef"}

\* Visitor._at_module_level: true when a function definition is on the stack.
at_module_level(stk) ==
    \E i \in 1..Len(stk) : stk[i].node.kind \in FunctionKinds

NoHandler == [some |-> FALSE, name |-> None]

\* The scan of the stack going on through function definitions.
except_handler_through_functions(stk, i) ==
    IF \E k \in 1..i : stk[k].node.kind = "ExceptHandler"
    THEN LET k == CHOOSE k \in 1..i :
                      /\ stk[k].node.kind = "ExceptHandler"
                      /\ \A m \in (k + 1)..i : stk[m].node.kind # "ExceptHandler"
         IN [some |-> TRUE, name |-> stk[k].node.name]
    ELSE NoHandler

RECURSIVE except_handler_from(_, _)
except_handler_from(stk, i) ==
    IF i = 0 THEN NoHandler
    ELSE IF stk[i].node.kind = "ExceptHandler"
    THEN [some |-> TRUE, name |-> stk[i].node.name]
    ELSE IF stk[i].node.kind \in FunctionKinds THEN NoHandler
    ELSE except_handler_from(stk, i - 1)

\* Visitor._current_except_handler: [some, name (the handler's name field)].
current_except_handler(stk) == except_handler_from(stk, Len(stk))

(***************************************************************************)
(* Visitor.visit_Import, visit_ImportFrom, visit_Attribute                 *)
(***************************************************************************)
RECURSIVE import_logging_name_first(_, _)
\* _logging_name set by the first import of logging only, and kept afterwards.
import_logging_name_first(names, current) ==
    IF names = <<>> THEN current
    ELSE import_logging_name_first(
            Tail(names),
            IF Head(names).name = "logging" /\ current = None
            THEN (IF Head(names).asname # None THEN Head(names).asname
                  ELSE Head(names).name)
            ELSE current)

RECURSIVE import_logging_name(_, _)
\* The value of _logging_name after the loop of visit_Import over `names`.
import_logging_name(names, current) ==
    IF names = <<>> THEN current
    ELSE import_logging_name(
            Tail(names),
            IF Head(names).name = "logging"
            THEN (IF Head(names).asname # None THEN Head(names).asname
                  ELSE Head(names).name)
            ELSE current)

FromImportsGet(imports, key) ==
    IF key \in DOMAIN imports THEN imports[key] ELSE None

FromImportsSet(imports, key, value) ==
    [k \in DOMAIN imports \cup {key} |-> IF k = key THEN value ELSE imports[k]]

RECURSIVE import_from_loop_at_alias(_, _, _, _, _)
\* The loop of visit_ImportFrom reporting at the alias whatever the version.
import_from_loop_at_alias(node, path, i, imports, ge310) ==
    IF i > Len(node.names) THEN [errors |-> <<>>, imports |-> imports]
    ELSE LET a == node.names[i]
             warn == IF a.name = "WARN" THEN <<Diag(Append(path, i), LOG009)>> ELSE <<>>
             imp == IF a.asname = None THEN FromImportsSet(imports, a.name, node.module)
                    ELSE imports
             rest == import_from_loop_at_alias(node, path, i + 1, imp, ge310)
         IN [errors |-> warn \o rest.errors, imports |-> rest.imports]

RECURSIVE import_from_loop(_, _, _, _, _)
\* The loop of visit_ImportFrom from alias i on: [errors (appended), imports].
import_from_loop(node, path, i, imports, ge310) ==
    IF i > Len(node.names) THEN [errors |-> <<>>, imports |-> imports]
    ELSE LET a == node.names[i]
             warn == IF a.name = "WARN"
                     THEN <<Diag(IF ge310 THEN Append(path, i) ELSE path, LOG009)>>
                     ELSE <<>>
             imp == IF a.asname = None THEN FromImportsSet(imports, a.name, node.module)
                    ELSE imports
             rest == import_from_loop(node, path, i + 1, imp, ge310)
         IN [errors |-> warn \o rest.errors, imports |-> rest.imports]

\* The effect of visit_ImportFrom before generic_visit.
import_from(node, path, imports, ge310) ==
    IF node.module = "logging" THEN import_from_loop(node, path, 1, imports, ge310)
    ELSE [errors |-> <<>>, imports |-> imports]

\* The diagnostics of visit_Attribute.
attribute_errors(node, path, logging) ==
    IF /\ logging # None
       /\ node.value.kind = "Name"
       /\ node.value.id = logging
       /\ node.attr = "WARN"
    THEN <<Diag(Pos(node, path), LOG009)>>
    ELSE <<>>
(***************************************************************************)
(* Visitor.visit_Call                                                      *)
(***************************************************************************)
\* Where the children of a call at `path` are: argument i, keyword j.
ArgPath(path, i) == Append(path, 1 + i)
KwPath(node, path, j) == Append(path, 1 + Len(node.args) + j)

\* any((found := kw).arg == name for kw in keywords): the index of the first keyword
\* of that name, or 0.
FirstKeyword(keywords, name) ==
    IF \E j \in 1..Len(keywords) : keywords[j].arg = name
    THEN CHOOSE j \in 1..Len(keywords) :
            /\ keywords[j].arg = name
            /\ \A k \in 1..(j - 1) : keywords[k].arg # name
    ELSE 0

\* node.func is <logging_name>.<attr> with attr in attrs.
logging_attribute(func, attrs, logging) ==
    /\ logging # None
    /\ func.kind = "Attribute"
    /\ func.attr \in attrs
    /\ func.value.kind = "Name"
    /\ func.value.id = logging

\* node.func is a bare name of names that was imported from logging.
logging_from_import(func, names, imports) ==
    /\ func.kind = "Name"
    /\ func.id \in names
    /\ FromImportsGet(imports, func.id) = "logging"

\* LOG001 taken to trigger inside function definitions instead of outside them.
call_LOG001_in_function(node, path, stk, logging, imports) ==
    IF /\ \/ logging_attribute(node.func, {"Logger"}, logging)
          \/ logging_from_import(node.func, {"Logger"}, imports)
       /\ at_module_level(stk)
    THEN <<Diag(Pos(node, path), LOG001)>>
    ELSE <<>>

\* LOG001 (lines 177-191)
call_LOG001(node, path, stk, logging, imports) ==
    IF /\ \/ logging_attribute(node.func, {"Logger"}, logging)
          \/ logging_from_import(node.func, {"Logger"}, imports)
       /\ ~at_module_level(stk)
    THEN <<Diag(Pos(node, path), LOG001)>>
    ELSE <<>>

\* LOG015 (lines 193-205)
call_LOG015(node, path, logging, imports) ==
    IF \/ logging_attribute(node.func, logger_methods, logging)
       \/ logging_from_import(node.func, logger_methods, imports)
    THEN <<Diag(Pos(node, path), LOG015)>>
    ELSE <<>>

\* The condition of lines 207-217: a call of logging's getLogger.
is_getLogger(node, logging, imports) ==
    \/ logging_attribute(node.func, {"getLogger"}, logging)
    \/ logging_from_import(node.func, {"getLogger"}, imports)

\* _logger_name cleared by an assignment of anything else than a getLogger call.
call_logger_name_clearing(node, stk, logging, imports, logger) ==
    IF /\ is_getLogger(node, logging, imports)
       /\ Len(stk) >= 2
       /\ stk[Len(stk) - 1].node.kind = "Assign"
       /\ Len(stk[Len(stk) - 1].node.targets) = 1
       /\ stk[Len(stk) - 1].node.targets[1].kind = "Name"
       /\ ~at_module_level(stk)
    THEN stk[Len(stk) - 1].node.targets[1].id
    ELSE IF Len(stk) >= 2 /\ stk[Len(stk) - 1].node.kind = "Assign" THEN None
    ELSE logger

\* The binding of _logger_name without the test on enclosing function definitions.
call_logger_name_in_function(node, stk, logging, imports, logger) ==
    IF /\ is_getLogger(node, logging, imports)
       /\ Len(stk) >= 2
       /\ stk[Len(stk) - 1].node.kind = "Assign"
       /\ Len(stk[Len(stk) - 1].node.targets) = 1
       /\ stk[Len(stk) - 1].node.targets[1].kind = "Name"
    THEN stk[Len(stk) - 1].node.targets[1].id
    ELSE logger

\* _logger_name after lines 218-225.
call_logger_name(node, stk, logging, imports, logger) ==
    IF /\ is_getLogger(node, logging, imports)
       /\ Len(stk) >= 2
       /\ stk[Len(stk) - 1].node.kind = "Assign"
       /\ Len(stk[Len(stk) - 1].node.targets) = 1
       /\ stk[Len(stk) - 1].node.targets[1].kind = "Name"
       /\ ~at_module_level(stk)
    THEN stk[Len(stk) - 1].node.targets[1].id
    ELSE logger

\* LOG002 (lines 227-234)
call_LOG002(node, path, logging, imports) ==
    IF /\ is_getLogger(node, logging, imports)
       /\ node.args # <<>>
       /\ node.args[1].kind = "Name"
       /\ node.args[1].id \in LOG002_names
    THEN <<Diag(Pos(node.args[1], ArgPath(path, 1)), LOG002)>>
    ELSE <<>>

\* The condition of lines 236-243 without the test on the receiver's name.
is_logger_call_any_receiver(node, logging, logger) ==
    /\ node.func.kind = "Attribute"
    /\ node.func.attr \in logger_methods
    /\ node.func.value.kind = "Name"

\* The condition of lines 236-243: a logger method called on the logging module or on
\* the bound logger.
is_logger_call(node, logging, logger) ==
    /\ node.func.kind = "Attribute"
    /\ node.func.attr \in logger_methods
    /\ node.func.value.kind = "Name"
    /\ \/ logging # None /\ node.func.value.id = logging
       \/ logger # None /\ node.func.value.id = logger

\* LOG008 for warning as well as for warn.
call_LOG008_warning(node, path) ==
    IF node.func.attr \in {"warn", "warning"} THEN <<Diag(Pos(node, path), LOG008)>> ELSE <<>>

\* LOG008 (lines 246-248)
call_LOG008(node, path) ==
    IF node.func.attr = "warn" THEN <<Diag(Pos(node, path), LOG008)>> ELSE <<>>

RECURSIVE dict_extra_errors_any_key(_, _, _, _)
\* LOG003 for every string key of a dict literal, reserved or not.
dict_extra_errors_any_key(keys, dictpath, i, c) ==
    IF i > Len(keys) THEN <<>>
    ELSE IF keys[i].kind = "NoKey" THEN dict_extra_errors_any_key(keys, dictpath, i + 1, c)
    ELSE (IF keys[i].kind = "Constant" /\ keys[i].ctype = "str"
          THEN <<Diag(Pos(keys[i], Append(dictpath, c + 1)), LOG003(keys[i].s))>>
          ELSE <<>>)
         \o dict_extra_errors_any_key(keys, dictpath, i + 1, c + 1)

RECURSIVE dict_extra_errors(_, _, _, _)
\* LOG003 for the keys of a dict literal from key i on; c counts the keys that are
\* nodes, which is where the key sits among the children of the Dict.
dict_extra_errors(keys, dictpath, i, c) ==
    IF i > Len(keys) THEN <<>>
    ELSE IF keys[i].kind = "NoKey" THEN dict_extra_errors(keys, dictpath, i + 1, c)
    ELSE (IF /\ keys[i].kind = "Constant"
             /\ keys[i].ctype = "str"
             /\ keys[i].s \in logrecord_attributes
          THEN <<Diag(Pos(keys[i], Append(dictpath, c + 1)), LOG003(keys[i].s))>>
          ELSE <<>>)
         \o dict_extra_errors(keys, dictpath, i + 1, c + 1)

RECURSIVE dict_call_extra_errors(_, _, _)
\* LOG003 for the keywords of a dict(...) call from keyword j on.
dict_call_extra_errors(call, callpath, j) ==
    IF j > Len(call.keywords) THEN <<>>
    ELSE (IF /\ call.keywords[j].arg # NoArg
             /\ call.keywords[j].arg \in logrecord_attributes
          THEN <<Diag(KwPath(call, callpath, j), LOG003(call.keywords[j].arg))>>
          ELSE <<>>)
         \o dict_call_extra_errors(call, callpath, j + 1)

\* LOG003 (lines 250-278)
call_LOG003(node, path) ==
    LET j == FirstKeyword(node.keywords, kw_extra)
    IN IF j = 0 THEN <<>>
       ELSE LET extra_node == node.keywords[j]
                valuepath == Append(KwPath(node, path, j), 1)
            IN IF extra_node.value.kind = "Dict"
               THEN dict_extra_errors(extra_node.value.keys, valuepath, 1, 0)
               ELSE IF /\ extra_node.value.kind = "Call"
                       /\ extra_node.value.func.kind = "Name"
                       /\ extra_node.value.func.id = "dict"
               THEN dict_call_extra_errors(extra_node.value, valuepath, 1)
               ELSE <<>>

\* Any name passed as exc_info in a handler taken for the handler's exception.
redundant_exc_info_any_name(value, exc_handler) ==
    \/ value.kind = "Constant" /\ Truthy(value)
    \/ exc_handler.some /\ value.kind = "Name"

\* exc_info is a truthy literal, or (in a handler) the handler's exception name.
redundant_exc_info(value, exc_handler) ==
    \/ value.kind = "Constant" /\ Truthy(value)
    \/ /\ exc_handler.some
       /\ value.kind = "Name"
       /\ value.id = exc_handler.name

\* LOG004 (lines 281-284): exception() with no current handler.
call_LOG004(node, path, exc_handler) ==
    IF ~exc_handler.some THEN <<Diag(Pos(node, path), LOG004)>> ELSE <<>>

\* The exc_info keyword of exception() with every literal taken for a redundant one.
call_LOG006_any_literal(node, path, exc_handler) ==
    LET j == FirstKeyword(node.keywords, kw_exc_info)
        exc_info == node.keywords[j]
    IN IF j = 0 THEN <<>>
       ELSE IF \/ exc_info.value.kind = "Constant"
               \/ redundant_exc_info(exc_info.value, exc_handler)
       THEN <<Diag(KwPath(node, path, j), LOG006)>>
       ELSE <<>>

\* LOG006 and LOG007 (lines 286-308): the exc_info keyword of exception().
call_LOG006_LOG007(node, path, exc_handler) ==
    LET j == FirstKeyword(node.keywords, kw_exc_info)
        exc_info == node.keywords[j]
    IN IF j = 0 THEN <<>>
       ELSE IF redundant_exc_info(exc_info.value, exc_handler)
       THEN <<Diag(KwPath(node, path, j), LOG006)>>
       ELSE IF exc_info.value.kind = "Constant" /\ ~Truthy(exc_info.value)
       THEN <<Diag(KwPath(node, path, j), LOG007)>>
       ELSE <<>>

\* LOG005 for every error() in a handler, whatever its exc_info.
call_LOG005_always(node, path, exc_handler) ==
    <<Diag(Pos(node, path), LOG005)>>

\* LOG005 (lines 310-328): error() in a handler, exc_handler.some being true.
call_LOG005(node, path, exc_handler) ==
    LET j == FirstKeyword(node.keywords, kw_exc_info)
        exc_info == node.keywords[j]
        rewritable ==
            IF j # 0
            THEN \/ exc_info.value.kind = "Constant" /\ Truthy(exc_info.value)
                 \/ /\ exc_info.value.kind = "Name"
                    /\ exc_info.value.id = exc_handler.name
            ELSE TRUE
    IN IF rewritable THEN <<Diag(Pos(node, path), LOG005)>> ELSE <<>>

\* LOG014 (lines 330-338): a truthy literal exc_info with no current handler.
call_LOG014(node, path, exc_handler) ==
    LET j == FirstKeyword(node.keywords, kw_exc_info)
        exc_info == node.keywords[j]
    IN IF /\ ~exc_handler.some
          /\ j # 0
          /\ exc_info.value.kind = "Constant"
          /\ Truthy(exc_info.value)
       THEN <<Diag(KwPath(node, path, j), LOG014)>>
       ELSE <<>>

\* The checks of lines 280-338 made one after the other, none excluding the next.
call_exc_info_errors_independent(node, path, exc_handler) ==
    (IF node.func.attr = "exception"
     THEN call_LOG004(node, path, exc_handler)
          \o call_LOG006_LOG007(node, path, exc_handler)
     ELSE <<>>)
    \o (IF node.func.attr = "error" /\ exc_handler.some
        THEN call_LOG005(node, path, exc_handler)
        ELSE <<>>)
    \o call_LOG014(node, path, exc_handler)

\* The if / elif / elif of lines 280-338.
call_exc_info_errors(node, path, exc_handler) ==
    IF node.func.attr = "exception"
    THEN call_LOG004(node, path, exc_handler)
         \o call_LOG006_LOG007(node, path, exc_handler)
    ELSE IF node.func.attr = "error" /\ exc_handler.some
    THEN call_LOG005(node, path, exc_handler)
    ELSE call_LOG014(node, path, exc_handler)

\* LOG010 for any name passed first to exception() in a handler.
call_LOG010_any_name(node, path, exc_handler) ==
    IF /\ node.func.attr = "exception"
       /\ Len(node.args) >= 1
       /\ node.args[1].kind = "Name"
       /\ exc_handler.some
    THEN <<Diag(Pos(node.args[1], ArgPath(path, 1)), LOG010)>>
    ELSE <<>>

\* LOG010 (lines 340-350)
call_LOG010(node, path, exc_handler) ==
    IF /\ node.func.attr = "exception"
       /\ Len(node.args) >= 1
       /\ node.args[1].kind = "Name"
       /\ exc_handler.some
       /\ node.args[1].id = exc_handler.name
    THEN <<Diag(Pos(node.args[1], ArgPath(path, 1)), LOG010)>>
    ELSE <<>>

\* msg_arg and msg_arg_kwarg (lines 352-362): [some, node, path, kwarg].
call_msg_arg(node, path) ==
    LET j == FirstKeyword(node.keywords, kw_msg)
    IN IF node.func.attr = "log" /\ Len(node.args) >= 2
       THEN [some |-> TRUE, node |-> node.args[2], path |-> ArgPath(path, 2),
             kwarg |-> FALSE]
       ELSE IF node.func.attr # "log" /\ Len(node.args) >= 1
       THEN [some |-> TRUE, node |-> node.args[1], path |-> ArgPath(path, 1),
             kwarg |-> FALSE]
       ELSE IF j # 0
       THEN [some |-> TRUE, node |-> node.keywords[j].value,
             path |-> Append(KwPath(node, path, j), 1), kwarg |-> TRUE]
       ELSE [some |-> FALSE, node |-> NoKey, path |-> path, kwarg |-> FALSE]

\* LOG011 (lines 364-385)
call_LOG011(msg_arg) ==
    IF /\ msg_arg.some
       /\ \/ msg_arg.node.kind = "JoinedStr"
          \/ /\ msg_arg.node.kind = "Call"
             /\ msg_arg.node.func.kind = "Attribute"
             /\ IsStrConstant(msg_arg.node.func.value)
             /\ msg_arg.node.func.attr = "format"
          \/ /\ msg_arg.node.kind = "BinOp"
             /\ msg_arg.node.op = "Mod"
             /\ IsStrConstant(msg_arg.node.left)
          \/ /\ msg_arg.node.kind = "BinOp"
             /\ is_add_chain_with_non_str(msg_arg.node)
    THEN <<Diag(Pos(msg_arg.node, msg_arg.path), LOG011)>>
    ELSE <<>>

\* The orders in which a set of strings can be iterated.
Orders(S) ==
    {o \in [1..Cardinality(S) -> S] : \A i, j \in 1..Cardinality(S) : o[i] = o[j] => i = j}

\* The hash seeds of the interpreter's str hashing, fixed when the process starts.
HashSeeds == {0, 1}

\* `for k in S` over a set of str: an order of S that the seed and S determine, since
\* the set is built by the same operations whenever the same code meets the same keys.
set_order(S, seed) ==
    LET o == CHOOSE o \in Orders(S) : TRUE
    IN IF seed = 0 THEN o ELSE [i \in 1..Cardinality(S) |-> o[Cardinality(S) + 1 - i]]

\* Visitor._check_msg_and_args: the sequences of diagnostics it can append.
check_msg_and_args(node, path, msg_arg, msg) ==
    LET dict_idx == IF node.func.attr # "log" THEN 1 ELSE 2
        dict_node == node.args[dict_idx + 1]
        dictpath == ArgPath(path, dict_idx + 1)
        names == modnames(msg)
    IN IF /\ Len(node.args) = dict_idx + 1
          /\ dict_node.kind = "Dict"
          /\ \A i \in 1..Len(dict_node.keys) : IsStrConstant(dict_node.keys[i])
          /\ names # {}
       THEN LET given == {dict_node.keys[i].s : i \in 1..Len(dict_node.keys)}
                missing == names \ given
                unreferenced == given \ names
            IN { (IF missing # {}
                  THEN <<Diag(Pos(msg_arg.node, msg_arg.path), LOG013("missing", m))>>
                  ELSE <<>>)
                 \o (IF unreferenced # {}
                     THEN <<Diag(Pos(dict_node, dictpath), LOG013("unreferenced", u))>>
                     ELSE <<>>)
                 : m \in {set_order(missing, hash_seed)},
                   u \in {set_order(unreferenced, hash_seed)} }
       ELSE LET count == modpos_count(msg)
                arg_count == Len(node.args) - 1 - (IF node.func.attr = "log" THEN 1 ELSE 0)
            IN IF count > 0 /\ count # arg_count
               THEN {<<Diag(Pos(msg_arg.node, msg_arg.path), LOG012(count, arg_count))>>}
               ELSE {<<>>}

\* The positional count of _check_msg_and_args applied to every message, a dict of
\* named values or not.
call_format_errors_positional(node, path, msg_arg) ==
    IF /\ msg_arg.some
       /\ ~msg_arg.kwarg
       /\ flatten_str_chain(msg_arg.node).some
       /\ flatten_str_chain(msg_arg.node).text # <<>>
       /\ \A i \in 1..Len(node.args) : node.args[i].kind # "Starred"
    THEN LET count == modpos_count(flatten_str_chain(msg_arg.node).text)
             arg_count == Len(node.args) - 1 - (IF node.func.attr = "log" THEN 1 ELSE 0)
         IN IF count > 0 /\ count # arg_count
            THEN {<<Diag(Pos(msg_arg.node, msg_arg.path), LOG012(count, arg_count))>>}
            ELSE {<<>>}
    ELSE {<<>>}

\* LOG012 and LOG013 (lines 387-394)
call_format_errors(node, path, msg_arg) ==
    IF /\ msg_arg.some
       /\ ~msg_arg.kwarg
       /\ flatten_str_chain(msg_arg.node).some
       /\ flatten_str_chain(msg_arg.node).text # <<>>
       /\ \A i \in 1..Len(node.args) : node.args[i].kind # "Starred"
    THEN check_msg_and_args(node, path, msg_arg, flatten_str_chain(msg_arg.node).text)
    ELSE {<<>>}

\* The body of the if of lines 236-394: the sequences of diagnostics it can append.
logger_call_errors(node, path, stk) ==
    LET exc_handler == current_except_handler(stk)
        msg_arg == call_msg_arg(node, path)
    IN { call_LOG008(node, path)
         \o call_LOG003(node, path)
         \o call_exc_info_errors(node, path, exc_handler)
         \o call_LOG010(node, path, exc_handler)
         \o call_LOG011(msg_arg)
         \o fmt
         : fmt \in call_format_errors(node, path, msg_arg) }

\* The sequences of diagnostics visit_Call can append for `node`, visited at `path`
\* with the stack `stk` (the call on top).
call_errors(node, path, stk, logging, imports, logger) ==
    { call_LOG001(node, path, stk, logging, imports)
      \o call_LOG015(node, path, logging, imports)
      \o call_LOG002(node, path, logging, imports)
      \o rest
      : rest \in IF is_logger_call(node, logging, logger)
                 THEN logger_call_errors(node, path, stk)
                 ELSE {<<>>} }
(***************************************************************************)
(* The traversal                                                           *)
(***************************************************************************)
Top == stack[Len(stack)]

\* Visitor.visit is about to be called: with the tree by Plugin.run, or with the next
\* child by generic_visit.
Pending ==
    /\ pc = "visit"
    /\ IF stack = <<>> THEN TRUE ELSE Top.next < Len(Children(Top.node))
NextNode == IF stack = <<>> THEN tree ELSE Children(Top.node)[Top.next + 1]
NextPath == IF stack = <<>> THEN <<>> ELSE Append(Top.path, Top.next + 1)
Pushed == Append(stack, Frame(NextNode, NextPath))

HandledKinds == {"Import", "ImportFrom", "Attribute", "Call"}

visit_Import ==
    /\ Pending
    /\ NextNode.kind = "Import"
    /\ stack' = Pushed
    /\ logging_name' = import_logging_name(NextNode.names, logging_name)
    /\ UNCHANGED <<fixed, pc, errors, logger_name, from_imports, yielded>>

visit_ImportFrom ==
    /\ Pending
    /\ NextNode.kind = "ImportFrom"
    /\ stack' = Pushed
    /\ LET r == import_from(NextNode, NextPath, from_imports, version_ge_310)
       IN /\ errors' = errors \o r.errors
          /\ from_imports' = r.imports
    /\ UNCHANGED <<fixed, pc, logging_name, logger_name, yielded>>

visit_Attribute ==
    /\ Pending
    /\ NextNode.kind = "Attribute"
    /\ stack' = Pushed
    /\ errors' = errors \o attribute_errors(NextNode, NextPath, logging_name)
    /\ UNCHANGED <<fixed, pc, logging_name, logger_name, from_imports,
                   yielded>>

visit_Call ==
    /\ Pending
    /\ NextNode.kind = "Call"
    /\ stack' = Pushed
    /\ logger_name' =
          call_logger_name(NextNode, Pushed, logging_name, from_imports, logger_name)
    /\ \E new \in call_errors(NextNode, NextPath, Pushed, logging_name, from_imports,
                              logger_name') :
          errors' = errors \o new
    /\ UNCHANGED <<fixed, pc, logging_name, from_imports, yielded>>

\* Visitor.visit of a node of a class without visit_ method.
generic_visit ==
    /\ Pending
    /\ NextNode.kind \notin HandledKinds
    /\ stack' = Pushed
    /\ UNCHANGED <<fixed, pc, errors, logging_name, logger_name,
                   from_imports, yielded>>

\* The end of Visitor.visit popping the node while generic_visit of the parent stays at
\* the same child.
visit_return_same_child ==
    /\ pc = "visit"
    /\ stack # <<>>
    /\ Top.next = Len(Children(Top.node))
    /\ stack' = SubSeq(stack, 1, Len(stack) - 1)
    /\ pc' = IF Len(stack) = 1 THEN "yield" ELSE "visit"
    /\ UNCHANGED <<fixed, errors, logging_name, logger_name, from_imports, yielded>>

\* The end of Visitor.visit: every child was visited, self._stack.pop().
visit_return ==
    /\ pc = "visit"
    /\ stack # <<>>
    /\ Top.next = Len(Children(Top.node))
    /\ stack' = IF Len(stack) = 1 THEN <<>>
                ELSE [SubSeq(stack, 1, Len(stack) - 1) EXCEPT ![Len(stack) - 1].next = @ + 1]
    /\ pc' = IF Len(stack) = 1 THEN "yield" ELSE "visit"
    /\ UNCHANGED <<fixed, errors, logging_name, logger_name, from_imports,
                   yielded>>

\* The loop of Plugin.run going through visitor.errors from the last to the first.
run_yield_reversed ==
    /\ pc = "yield"
    /\ Len(yielded) < Len(errors)
    /\ yielded' = Append(yielded, [pos |-> errors[Len(errors) - Len(yielded)].pos,
                                   msg |-> errors[Len(errors) - Len(yielded)].msg,
                                   type |-> "Plugin"])
    /\ UNCHANGED <<fixed, pc, stack, errors, logging_name, logger_name, from_imports>>

\* Plugin.run: the loop over visitor.errors, one yield at a time.
run_yield ==
    /\ pc = "yield"
    /\ Len(yielded) < Len(errors)
    /\ yielded' = Append(yielded, [pos |-> errors[Len(yielded) + 1].pos,
                                   msg |-> errors[Len(yielded) + 1].msg,
                                   type |-> "Plugin"])
    /\ UNCHANGED <<fixed, pc, stack, errors, logging_name, logger_name,
                   from_imports>>

run_finish ==
    /\ pc = "yield"
    /\ Len(yielded) = Len(errors)
    /\ pc' = "done"
    /\ UNCHANGED <<fixed, stack, errors, logging_name, logger_name,
                   from_imports, yielded>>

\* The runs of the analysis on one tree.
MaxRuns == 2

\* Plugin.run with the visitor of the run before, not a new one.
run_again_same_visitor ==
    /\ pc = "done"
    /\ run < MaxRuns
    /\ run' = run + 1
    /\ previous' = yielded
    /\ pc' = "visit"
    /\ yielded' = <<>>
    /\ UNCHANGED <<tree, version_ge_310, hash_seed, stack, errors, logging_name,
                   logger_name, from_imports, helper>>

\* Plugin.run called once more, on the same Plugin or on another Plugin made with the
\* same tree (a Plugin holds nothing but the tree): `visitor = Visitor()` is a new
\* visitor, and the generator of the run before is exhausted.
run_again ==
    /\ pc = "done"
    /\ run < MaxRuns
    /\ run' = run + 1
    /\ previous' = yielded
    /\ pc' = "visit"
    /\ stack' = <<>>
    /\ errors' = <<>>
    /\ logging_name' = None
    /\ logger_name' = None
    /\ from_imports' = [k \in {} |-> None]
    /\ yielded' = <<>>
    /\ UNCHANGED <<tree, version_ge_310, hash_seed, helper>>

Next ==
    \/ visit_Import
    \/ visit_ImportFrom
    \/ visit_Attribute
    \/ visit_Call
    \/ generic_visit
    \/ visit_return
    \/ run_yield
    \/ run_finish

\* Visitor.__init__, in the first run of a Plugin constructed with `t`.
InitWith(t, ge310, seed) ==
    /\ tree = t
    /\ version_ge_310 = ge310
    /\ hash_seed = seed
    /\ run = 1
    /\ previous = <<>>
    /\ expr = t
    /\ flattened = <<>>
    /\ add_chain = <<>>
    /\ pc = "visit"
    /\ stack = <<>>
    /\ errors = <<>>
    /\ logging_name = None
    /\ logger_name = None
    /\ from_imports = [k \in {} |-> None]
    /\ yielded = <<>>
(***************************************************************************)
(* The trees analysed                                                      *)
(*                                                                         *)
(* Module bodies made of a prelude (imports, logger bindings), then one    *)
(* statement under up to MaxDepth enclosing blocks, then possibly a later  *)
(* module-level statement.                                                 *)
(***************************************************************************)
MaxDepth == 2

RECURSIVE Wrap(_, _)
\* The statements `stmts` enclosed in the blocks named by `kinds`, outermost first.
Wrap(kinds, stmts) ==
    IF kinds = <<>> THEN stmts
    ELSE LET inner == Wrap(Tail(kinds), stmts)
         IN CASE Head(kinds) = "def" -> <<FunctionDef(inner)>>
              [] Head(kinds) = "async" -> <<AsyncFunctionDef(inner)>>
              [] Head(kinds) = "class" -> <<ClassDef(inner)>>
              [] Head(kinds) = "except_as" ->
                    <<Try(<<Pass>>, <<ExceptHandler("exc", inner)>>)>>
              [] Head(kinds) = "except" ->
                    <<Try(<<Pass>>, <<ExceptHandler(None, inner)>>)>>

Nestings(kinds) == UNION {[1..n -> kinds] : n \in 0..MaxDepth}

MethodCall(receiver, method, args, keywords) ==
    Call(Attribute(Name(receiver), method), args, keywords)

import_logging == Import(<<alias("logging", None)>>)
import_logging_as_lm == Import(<<alias("logging", "lm")>>)
\* logger = logging.getLogger(__name__)
bind_logger ==
    Assign(<<Name("logger")>>, MethodCall("logging", "getLogger", <<Name("__name__")>>, <<>>))

(* Imports and uses of the logging module's names. *)
ImportStatements ==
    {import_logging, import_logging_as_lm, Import(<<alias("our_logging", None)>>)}
    \cup {ImportFrom(m, l, <<alias(n, a)>>) :
            m \in {"logging", "our_logging"}, l \in {0, 1},
            n \in {"Logger", "getLogger", "warn", "WARN"}, a \in {None, "renamed"}}

ImportPreludes ==
    {<<>>}
    \cup {<<i>> : i \in ImportStatements}
    \cup {<<import_logging, import_logging_as_lm>>,
          <<import_logging_as_lm, import_logging>>,
          <<import_logging, Import(<<alias("logging.handlers", None)>>)>>,
          <<ImportFrom("logging", 0, <<alias("Logger", None), alias("WARN", "W")>>),
            ImportFrom("our_logging", 0, <<alias("Logger", None)>>)>>}

NameUses ==
    {Expr(Call(f, <<Name("__file__")>>, <<>>)) :
        f \in {Attribute(Name(r), a) :
                  r \in {"logging", "lm"}, a \in {"Logger", "getLogger", "warn", "WARN"}}
              \cup {Name(a) : a \in {"Logger", "getLogger", "warn", "renamed"}}}
    \cup {Expr(Attribute(Name(r), "WARN")) : r \in {"logging", "lm"}}

TreesImports ==
    {Module(p \o Wrap(w, <<u>>)) :
        p \in ImportPreludes, w \in Nestings({"def", "async", "class"}), u \in NameUses}

(* Calls of exception, error and another method, in and out of handlers. *)
ExcInfoValues ==
    {Bool(TRUE), Bool(FALSE), Num(0), Str(<<>>), Name("exc"), Name("exc2")}

ExcInfoKeywords == {<<>>} \cup {<<keyword(kw_exc_info, v)>> : v \in ExcInfoValues}

ExcArgs ==
    {<<>>, <<Name("exc")>>, <<Name("exc2")>>, <<Str(<<"%", "s">>), Name("exc")>>}

ExcCalls ==
    {Expr(MethodCall(r, m, a, k)) :
        r \in {"logging", "logger", "x"}, m \in {"exception", "error", "info"},
        a \in ExcArgs, k \in ExcInfoKeywords}

TreesExcInfo ==
    {Module(<<import_logging, bind_logger>> \o Wrap(w, <<c>>)) :
        w \in Nestings({"def", "async", "except_as", "except"}), c \in ExcCalls}

(* Bindings of the logger name, and a later use of the name at module level. *)
Bindings ==
    {Assign(t, v) :
        t \in {<<Name("logger")>>, <<Name("other")>>, <<Name("logger"), Name("other")>>,
               <<Attribute(Name("self"), "logger")>>},
        v \in {MethodCall("logging", "getLogger", <<Name("__file__")>>, <<>>),
               Call(Name("getLogger"), <<>>, <<>>),
               Call(Attribute(MethodCall("logging", "getLogger", <<>>, <<>>), "getChild"),
                    <<>>, <<>>),
               MethodCall("logging", "makeLogger", <<>>, <<>>)}}
    \cup {Expr(MethodCall("logging", "getLogger", <<>>, <<>>))}

LoggerUses ==
    {Expr(MethodCall(r, m, <<JoinedStr>>, <<>>)) :
        r \in {"logger", "other"}, m \in {"warn", "exception"}}

WarningUses ==
    {Expr(MethodCall(r, "warning", <<JoinedStr>>, <<>>)) : r \in {"logger", "logging"}}

TreesBinding ==
    {Module(<<import_logging, ImportFrom("logging", 0, <<alias("getLogger", None)>>)>>
            \o Wrap(w, <<b>>) \o <<u>>) :
        w \in Nestings({"def", "async", "class"}), b \in Bindings, u \in LoggerUses}
    \cup {Module(<<import_logging, bind_logger, b, u>>) :
            b \in Bindings, u \in LoggerUses \cup WarningUses}

(* Messages, their arguments and the extra keyword. *)
\* The message texts of the trees: "%s", "%*d", "100%%", "%(k)s", "%(k)s %(j)d".
S_PCT_S == <<"%", "s">>
S_STAR == <<"%", "*", "d">>
S_RAW == <<"1", "0", "0", "%", "%">>
S_NAMED == <<"%", "(", "k", ")", "s">>
S_NAMED2 == <<"%", "(", "k", ")", "s", " ", "%", "(", "j", ")", "d">>
\* A named placeholder with two positional ones: "%(k)s%d%d".
S_MIXED == <<"%", "(", "k", ")", "s", "%", "d", "%", "d">>

MessageArgs ==
    { <<>>,
      <<Str(<<"h", "i">>)>>,
      <<Str(S_PCT_S)>>,
      <<Str(S_PCT_S), Name("a")>>,
      <<Str(S_PCT_S), Starred(Name("a"))>>,
      <<Str(S_STAR), Name("a")>>,
      <<Str(S_RAW)>>,
      <<BinOp(Str(<<"a", " ">>), "Add", Str(S_PCT_S))>>,
      <<BinOp(Str(<<"a">>), "Add", Name("a"))>>,
      <<BinOp(Str(S_PCT_S), "Mod", Name("a"))>>,
      <<BinOp(Str(<<"a">>), "Mult", Num(2))>>,
      <<BinOp(BinOp(Str(S_PCT_S), "Mod", Name("a")), "Add", Str(<<"b">>))>>,
      <<BinOp(Str(<<"a">>), "Add", BinOp(Str(<<"b">>), "Add", Name("a")))>>,
      <<Bytes(S_PCT_S)>>,
      <<JoinedStr>>,
      <<Call(Attribute(Str(<<"{", "}">>), "format"), <<Name("a")>>, <<>>)>>,
      <<Str(S_NAMED), Dict(<<>>, <<>>)>>,
      <<Str(S_NAMED), Dict(<<Str(<<"k">>)>>, <<Name("a")>>)>>,
      <<Str(S_NAMED), Dict(<<Str(<<"k">>), Str(<<"j">>)>>, <<Name("a"), Name("a")>>)>>,
      <<Str(S_NAMED2), Dict(<<>>, <<>>)>>,
      <<Str(S_NAMED), Dict(<<NoKey>>, <<Name("a")>>)>>,
      <<Str(S_NAMED), Dict(<<Name("k")>>, <<Name("a")>>)>>,
      <<Str(S_MIXED), Dict(<<Str(<<"k">>)>>, <<Name("a")>>)>>,
      <<Str(S_MIXED), Dict(<<Name("k")>>, <<Name("a")>>)>>,
      <<Str(S_MIXED), Dict(<<NoKey>>, <<Name("a")>>)>>,
      <<Str(S_STAR), Dict(<<Str(<<"k">>)>>, <<Name("a")>>)>>,
      <<Num(10), Str(S_PCT_S)>>,
      <<Num(10), Str(S_PCT_S), Name("a")>>,
      <<Num(10), Str(S_NAMED), Dict(<<Str(<<"j">>)>>, <<Name("a")>>)>> }

MessageKeywords ==
    { <<>>,
      <<keyword(kw_msg, JoinedStr)>>,
      <<keyword(kw_msg, Str(S_PCT_S))>>,
      <<keyword(kw_extra,
                Dict(<<Str(kw_msg), NoKey, Str(<<"k">>), Str(<<"n", "a", "m", "e">>)>>,
                     <<Name("a"), Name("a"), Name("a"), Name("a")>>))>>,
      <<keyword(kw_extra,
                Call(Name("dict"), <<>>,
                     <<keyword(kw_msg, Name("a")), keyword(NoArg, Name("a")),
                       keyword(<<"k">>, Name("a"))>>))>>,
      <<keyword(kw_extra, Name("a"))>> }

MessageCalls ==
    {Expr(MethodCall(r, m, a, k)) :
        r \in {"logging", "x"}, m \in {"info", "log"}, a \in MessageArgs,
        k \in MessageKeywords}

TreesMessages == {Module(<<import_logging, c>>) : c \in MessageCalls}

(* A second import of logging inside a function, under another name, and a later use
   of either name at module level. *)
TreesReimport ==
    {Module(<<import_logging>> \o Wrap(w, <<import_logging_as_lm>>) \o <<u>>) :
        w \in Nestings({"def"}),
        u \in {Expr(Attribute(Name(r), "WARN")) : r \in {"logging", "lm"}}
              \cup {Expr(MethodCall(r, "warn", <<>>, <<>>)) : r \in {"logging", "lm"}}}

Trees ==
    TreesImports \cup TreesExcInfo \cup TreesBinding \cup TreesMessages \cup TreesReimport

\* The import statements whose position depends on the interpreter's version.
HasWarnImport(t) ==
    \E i \in 1..Len(t.body) :
        /\ t.body[i].kind = "ImportFrom"
        /\ \E j \in 1..Len(t.body[i].names) : t.body[i].names[j].name = "WARN"

\* The trees with a set of several keys to iterate over.
HasSeveralKeys(t) ==
    \E i \in 1..Len(t.body) :
        /\ t.body[i].kind = "Expr"
        /\ t.body[i].value.kind = "Call"
        /\ \E j \in 1..Len(t.body[i].value.args) :
              /\ IsStrConstant(t.body[i].value.args[j])
              /\ Cardinality(modnames(t.body[i].value.args[j].s)) > 1

\* One interpreter and one tree; the version and the seed are varied where a
\* diagnostic can depend on them.
Init ==
    \E t \in Trees, ge310 \in BOOLEAN, seed \in HashSeeds :
        /\ ge310 \/ HasWarnImport(t)
        /\ seed = 0 \/ HasSeveralKeys(t)
        /\ InitWith(t, ge310, seed)

Spec == Init /\ [][Next]_vars

\* The same, with the analysis run again and again on the tree.
NextTwice == Next \/ run_again

SpecTwice == Init /\ [][NextTwice]_vars

(* Trees with every kind of node the visitor handles, for the runs followed to their
   end. *)
LiveStatements ==
    {bind_logger,
     Expr(Attribute(Name("logging"), "WARN")),
     Expr(MethodCall("logging", "warn", <<Str(S_PCT_S)>>, <<>>)),
     Expr(MethodCall("logging", "exception", <<Name("exc")>>,
                     <<keyword(kw_exc_info, Bool(TRUE))>>))}

TreesLive ==
    {Module(<<import_logging, ImportFrom("logging", 0, <<alias("WARN", None)>>)>>
            \o Wrap(w, <<s>>)) :
        w \in Nestings({"def", "except_as"}), s \in LiveStatements}

InitLive == \E t \in TreesLive : InitWith(t, TRUE, 0)

\* One run that is not suspended for ever: the traversal is a sequence of calls that
\* nothing interrupts, and the host takes every diagnostic of the generator.
SpecLive == InitLive /\ [][Next]_vars /\ WF_vars(Next)

(***************************************************************************)
(* The string-chain helpers called on their own                            *)
(***************************************************************************)
\* The binary operators of an expression.
MaxOps == 2

ChainLeaves == {Str(<<"A">>), Str(<<"B">>), Bytes(<<"C">>), Name("a")}

RECURSIVE ExprsWithOps(_)
\* The expressions with n binary operators, + or %, over the leaves.
ExprsWithOps(n) ==
    IF n = 0 THEN ChainLeaves
    ELSE UNION {{BinOp(l, op, r) :
                    l \in ExprsWithOps(i), op \in {"Add", "Mod"},
                    r \in ExprsWithOps(n - 1 - i)} : i \in 0..(n - 1)}

ChainExprs == UNION {ExprsWithOps(n) : n \in 0..MaxOps}

\* TestFlattenStrChain.run: the source is one expression statement, and the helper is
\* given its value.
InitHelpers ==
    \E e \in ChainExprs :
        /\ tree = Module(<<Expr(e)>>)
        /\ version_ge_310 = TRUE
        /\ hash_seed = 0
        /\ pc = "helper"
        /\ stack = <<>>
        /\ errors = <<>>
        /\ logging_name = None
        /\ logger_name = None
        /\ from_imports = [k \in {} |-> None]
        /\ yielded = <<>>
        /\ run = 1
        /\ previous = <<>>
        /\ expr = tree.body[1].value
        /\ flattened = <<>>
        /\ add_chain = <<>>

call_flatten_str_chain ==
    /\ pc = "helper"
    /\ flattened = <<>>
    /\ flattened' = <<flatten_str_chain(expr)>>
    /\ UNCHANGED <<tree, version_ge_310, hash_seed, pc, stack, errors, logging_name,
                   logger_name, from_imports, yielded, run, previous, expr, add_chain>>

\* is_add_chain_with_non_str takes an ast.BinOp, as its one caller gives it (line 382).
call_is_add_chain_with_non_str ==
    /\ pc = "helper"
    /\ expr.kind = "BinOp"
    /\ add_chain = <<>>
    /\ add_chain' = <<is_add_chain_with_non_str(expr)>>
    /\ UNCHANGED <<tree, version_ge_310, hash_seed, pc, stack, errors, logging_name,
                   logger_name, from_imports, yielded, run, previous, expr, flattened>>

NextHelpers == call_flatten_str_chain \/ call_is_add_chain_with_non_str

SpecHelpers == InitHelpers /\ [][NextHelpers]_vars

(***************************************************************************)
(* Vocabulary of the properties                                            *)
(***************************************************************************)
RECURSIVE SeqUnion(_)
SeqUnion(sets) == IF sets = <<>> THEN {} ELSE Head(sets) \cup SeqUnion(Tail(sets))

RECURSIVE Statements(_)
\* The statements of a tree, at every depth.
Statements(node) ==
    IF node.kind \in {"Module", "FunctionDef", "AsyncFunctionDef", "ClassDef", "ExceptHandler"}
    THEN {node} \cup SeqUnion([i \in 1..Len(node.body) |-> Statements(node.body[i])])
    ELSE IF node.kind = "Try"
    THEN {node}
         \cup SeqUnion([i \in 1..Len(node.body) |-> Statements(node.body[i])])
         \cup SeqUnion([i \in 1..Len(node.handlers) |-> Statements(node.handlers[i])])
    ELSE {node}

\* `import logging`, with or without an alias.
IsImportLogging(s) ==
    /\ s.kind = "Import"
    /\ \E j \in 1..Len(s.names) : s.names[j].name = "logging"

\* `from logging import ...`: the top-level module logging, not a relative import.
IsFromLoggingImport(s) ==
    /\ s.kind = "ImportFrom"
    /\ s.module = "logging"
    /\ s.level = 0

\* The diagnostics of `ds` that carry the rule code `code`.
WithCode(ds, code) == SelectSeq(ds, LAMBDA d : d.msg[1] = code)

\* The step enters a call: Visitor.visit pushes it and visit_Call examines it.
CallEntered ==
    /\ Len(stack') = Len(stack) + 1
    /\ stack'[Len(stack')].node.kind = "Call"

\* What the step appended to the list of diagnostics.
Emitted == SubSeq(errors', Len(errors) + 1, Len(errors'))

\* The call was just entered: none of its children is visited yet.
AtCall ==
    /\ pc = "visit"
    /\ stack # <<>>
    /\ Top.node.kind = "Call"
    /\ Top.next = 0

(* C1: a tree with no `import logging` (aliased or not) and no `from logging *)
(* import ...` statement has an empty list of diagnostics, at every point    *)
(* of the traversal and after it, whatever calls and attributes it holds.    *)
C1_NoLoggingImportNoDiagnostics ==
    (\A s \in Statements(tree) : ~IsImportLogging(s) /\ ~IsFromLoggingImport(s))
        => errors = <<>>

\* The statement imports `name` without renaming it.
ImportsUnaliased(s, name) ==
    \E j \in 1..Len(s.names) : s.names[j].name = name /\ s.names[j].asname = None

\* The tree holds an unaliased `from logging import name`.
FromLoggingImported(name) ==
    \E s \in Statements(tree) : IsFromLoggingImport(s) /\ ImportsUnaliased(s, name)

\* A function or an async function definition encloses the node on top of stk.
EnclosedByFunction(stk) ==
    \E i \in 1..Len(stk) : stk[i].node.kind \in {"FunctionDef", "AsyncFunctionDef"}

\* call is a call of the logging module's Logger constructor: Logger on the tracked
\* name of the module, or the bare name after an unaliased `from logging import Logger`.
IsLoggerConstructor(call) ==
    \/ /\ call.func.kind = "Attribute"
       /\ call.func.attr = "Logger"
       /\ call.func.value.kind = "Name"
       /\ logging_name # None
       /\ call.func.value.id = logging_name
    \/ /\ call.func.kind = "Name"
       /\ call.func.id = "Logger"
       /\ FromLoggingImported("Logger")
       /\ FromImportsGet(from_imports, "Logger") = "logging"

\* The diagnostic of the rule `msg` at the start of the node on top of stk.
AtTop(stk, msg) == Diag(Pos(stk[Len(stk)].node, stk[Len(stk)].path), msg)

(* C2: a call of the logging module's Logger constructor yields exactly one  *)
(* LOG001 at the call's position when no function or async function         *)
(* definition encloses it and none when one does; a call of a bare name that *)
(* was imported under an alias or from another module yields no LOG001.      *)
C2_LoggerConstructor ==
    [][CallEntered =>
        LET call == stack'[Len(stack')].node
        IN /\ IsLoggerConstructor(call) =>
                WithCode(Emitted, "LOG001") =
                    IF EnclosedByFunction(stack') THEN <<>>
                    ELSE <<AtTop(stack', LOG001)>>
           /\ (call.func.kind = "Name" /\ ~FromLoggingImported(call.func.id)) =>
                WithCode(Emitted, "LOG001") = <<>>]_vars

(* C3, as the specification states it: a call of the logging module's Logger *)
(* constructor that a function or async function definition encloses yields  *)
(* LOG001 at the start of the call.                                          *)
C3_NotAtModuleLevel ==
    [][(CallEntered /\ IsLoggerConstructor(stack'[Len(stack')].node)
            /\ EnclosedByFunction(stack'))
        => WithCode(Emitted, "LOG001") = <<AtTop(stack', LOG001)>>]_vars

(* C3, amended: a call of the logging module's Logger constructor yields     *)
(* LOG001, once and at the start of the call, exactly when no function or    *)
(* async function definition is on the stack.                                *)
C3_AtModuleLevel ==
    [][(CallEntered /\ IsLoggerConstructor(stack'[Len(stack')].node))
        => /\ ~EnclosedByFunction(stack') =>
                WithCode(Emitted, "LOG001") = <<AtTop(stack', LOG001)>>
           /\ EnclosedByFunction(stack') => WithCode(Emitted, "LOG001") = <<>>]_vars

\* A Logger constructor call in a class body, outside every function, was entered and
\* LOG001 is the last diagnostic, at the call.
C3_Witness ==
    /\ AtCall
    /\ IsLoggerConstructor(Top.node)
    /\ ~EnclosedByFunction(stack)
    /\ \E i \in 1..Len(stack) : stack[i].node.kind = "ClassDef"
    /\ errors # <<>>
    /\ errors[Len(errors)] = AtTop(stack, LOG001)

\* call is `r.m(...)` with r a simple name and m the name of a logger method.
IsMethodCallOnName(call) ==
    /\ call.func.kind = "Attribute"
    /\ call.func.attr \in logger_methods
    /\ call.func.value.kind = "Name"

(* C4: a call `x.m(...)` where m is a logger method name and x is neither    *)
(* the tracked name of the logging module nor the tracked logger name adds   *)
(* no diagnostic.                                                            *)
C4_UnrelatedReceiver ==
    [][(/\ CallEntered
        /\ IsMethodCallOnName(stack'[Len(stack')].node)
        /\ stack'[Len(stack')].node.func.value.id # logging_name
        /\ stack'[Len(stack')].node.func.value.id # logger_name')
        => Emitted = <<>>]_vars

\* x.exception(...) was entered outside every handler, both names being tracked, and
\* the list of diagnostics is still empty.
C4_Witness ==
    /\ AtCall
    /\ IsMethodCallOnName(Top.node)
    /\ Top.node.func.attr = "exception"
    /\ Top.node.func.value.id = "x"
    /\ logging_name = "logging"
    /\ logger_name = "logger"
    /\ \A i \in 1..Len(stack) : stack[i].node.kind # "ExceptHandler"
    /\ errors = <<>>

RECURSIVE FunctionFreeStatements(_)
\* The statements of a tree that no function or async function definition encloses.
FunctionFreeStatements(node) ==
    IF node.kind \in {"Module", "ClassDef", "ExceptHandler"}
    THEN {node}
         \cup SeqUnion([i \in 1..Len(node.body) |-> FunctionFreeStatements(node.body[i])])
    ELSE IF node.kind = "Try"
    THEN {node}
         \cup SeqUnion([i \in 1..Len(node.body) |-> FunctionFreeStatements(node.body[i])])
         \cup SeqUnion([i \in 1..Len(node.handlers) |->
                            FunctionFreeStatements(node.handlers[i])])
    ELSE {node}

\* node is a call of something named getLogger: r.getLogger(...) or getLogger(...).
NamedGetLogger(node) ==
    /\ node.kind = "Call"
    /\ \/ node.func.kind = "Attribute" /\ node.func.attr = "getLogger"
       \/ node.func.kind = "Name" /\ node.func.id = "getLogger"

\* s is `name = <a getLogger call>`: one target, a simple name.
BindsLogger(s, name) ==
    /\ s.kind = "Assign"
    /\ Len(s.targets) = 1
    /\ s.targets[1].kind = "Name"
    /\ s.targets[1].id = name
    /\ NamedGetLogger(s.value)

(* C5: the tracked logger name changes only when a getLogger call is entered *)
(* that is the right-hand side of an assignment to a single simple name,     *)
(* with no function or async function definition on the stack, and it        *)
(* becomes that name; a call `name.m(...)` of a logger method on a name that *)
(* is not the logging module's and that no function-free statement of the    *)
(* tree binds to a getLogger call adds no diagnostic.                        *)
C5_LoggerBinding ==
    [][/\ logger_name' # logger_name =>
            /\ CallEntered
            /\ Len(stack) >= 1
            /\ BindsLogger(Top.node, logger_name')
            /\ Top.node.value = stack'[Len(stack')].node
            /\ Top.next = Len(Top.node.targets)
            /\ ~EnclosedByFunction(stack')
       /\ (/\ CallEntered
           /\ IsMethodCallOnName(stack'[Len(stack')].node)
           /\ stack'[Len(stack')].node.func.value.id # logging_name
           /\ \A s \in FunctionFreeStatements(tree) :
                  ~BindsLogger(s, stack'[Len(stack')].node.func.value.id))
            => Emitted = <<>>]_vars

\* logger.warn(...) was entered at module scope as the last statement of a tree whose
\* only binding of `logger` to a getLogger call is inside a function: no name is
\* tracked and no LOG008 was appended.
C5_Witness ==
    /\ AtCall
    /\ Len(stack) = 3
    /\ stack[2].node = tree.body[Len(tree.body)]
    /\ IsMethodCallOnName(Top.node)
    /\ Top.node.func.attr = "warn"
    /\ Top.node.func.value.id = "logger"
    /\ \E s \in Statements(tree) : BindsLogger(s, "logger")
    /\ \A s \in FunctionFreeStatements(tree) : ~BindsLogger(s, "logger")
    /\ logger_name = None
    /\ WithCode(errors, "LOG008") = <<>>

\* call is `r.m(...)` with r the tracked name of the logging module or the tracked
\* logger name `logger`: a call of the method m on a recognized logging entity.
IsLoggingCall(call, logger, m) ==
    /\ call.func.kind = "Attribute"
    /\ call.func.attr = m
    /\ call.func.value.kind = "Name"
    /\ \/ logging_name # None /\ call.func.value.id = logging_name
       \/ logger # None /\ call.func.value.id = logger

\* The place in stk of the current exception handler, 0 when there is none: the
\* innermost ExceptHandler, unless a function or async function definition lies
\* between it and the top of the stack.
CurrentHandler(stk) ==
    LET handlers == {i \in 1..Len(stk) : stk[i].node.kind = "ExceptHandler"}
        innermost == CHOOSE i \in handlers : \A k \in handlers : k <= i
    IN IF handlers = {} THEN 0
       ELSE IF \E k \in (innermost + 1)..Len(stk) :
                  stk[k].node.kind \in {"FunctionDef", "AsyncFunctionDef"}
       THEN 0
       ELSE innermost

\* value is a name equal to the name bound by the current handler of stk.
IsHandlerName(value, stk) ==
    /\ CurrentHandler(stk) # 0
    /\ stk[CurrentHandler(stk)].node.name # None
    /\ value.kind = "Name"
    /\ value.id = stk[CurrentHandler(stk)].node.name

TruthyLiteral(value) == value.kind = "Constant" /\ Truthy(value)

\* The exc_info keyword of the call on top of stk, and where it is.
HasExcInfo(call) == FirstKeyword(call.keywords, kw_exc_info) # 0
ExcInfo(call) == call.keywords[FirstKeyword(call.keywords, kw_exc_info)]
AtExcInfo(stk, msg) ==
    Diag(KwPath(stk[Len(stk)].node, stk[Len(stk)].path,
                FirstKeyword(stk[Len(stk)].node.keywords, kw_exc_info)), msg)

(* C6: a call of exception on a recognized logging entity yields exactly one *)
(* LOG004, at the start of the call, if and only if there is no current      *)
(* exception handler: the innermost ExceptHandler of the stack, none once a  *)
(* function or async function definition is crossed.                         *)
C6_ExceptionOutsideHandler ==
    [][(CallEntered /\ IsLoggingCall(stack'[Len(stack')].node, logger_name', "exception"))
        => WithCode(Emitted, "LOG004") =
              IF CurrentHandler(stack') = 0 THEN <<AtTop(stack', LOG004)>> ELSE <<>>]_vars

\* exception() was entered in a function defined inside an except block, and LOG004 was
\* appended at the call.
C6_Witness ==
    /\ AtCall
    /\ IsLoggingCall(Top.node, logger_name, "exception")
    /\ \E i \in 1..Len(stack) : \E k \in (i + 1)..Len(stack) :
          /\ stack[i].node.kind = "ExceptHandler"
          /\ stack[k].node.kind = "FunctionDef"
    /\ CurrentHandler(stack) = 0
    /\ WithCode(errors, "LOG004") = <<AtTop(stack, LOG004)>>

(* C7: a call of exception whose first positional argument is a name equal   *)
(* to the name bound by the current exception handler yields exactly one     *)
(* LOG010, at that argument; it yields none when the handler binds no name,  *)
(* when the name differs, when the exception's name is only a later argument *)
(* or when there is no current handler; and no call yields both LOG004 and   *)
(* LOG010.                                                                   *)
C7_ExceptionArgument ==
    [][(CallEntered /\ IsLoggingCall(stack'[Len(stack')].node, logger_name', "exception"))
        => LET call == stack'[Len(stack')].node
               path == stack'[Len(stack')].path
           IN /\ WithCode(Emitted, "LOG010") =
                    IF call.args # <<>> /\ IsHandlerName(call.args[1], stack')
                    THEN <<Diag(Append(path, 2), LOG010)>>
                    ELSE <<>>
              /\ WithCode(Emitted, "LOG004") = <<>> \/ WithCode(Emitted, "LOG010") = <<>>]_vars

\* logger.exception(exc) was entered in `except Exception as exc`, and LOG010 is the
\* last diagnostic, at the argument.
C7_Witness ==
    /\ AtCall
    /\ IsLoggingCall(Top.node, logger_name, "exception")
    /\ Top.node.args = <<Name("exc")>>
    /\ IsHandlerName(Top.node.args[1], stack)
    /\ errors # <<>>
    /\ errors[Len(errors)] = Diag(Append(Top.path, 2), LOG010)

(* C8: a call of error on a recognized logging entity yields exactly one     *)
(* LOG005, at the start of the call, if and only if there is a current       *)
(* exception handler and the call has no exc_info keyword, or a truthy       *)
(* literal for it, or a name equal to the name the handler binds.            *)
C8_ErrorInHandler ==
    [][(CallEntered /\ IsLoggingCall(stack'[Len(stack')].node, logger_name', "error"))
        => LET call == stack'[Len(stack')].node
           IN WithCode(Emitted, "LOG005") =
                 IF /\ CurrentHandler(stack') # 0
                    /\ \/ ~HasExcInfo(call)
                       \/ TruthyLiteral(ExcInfo(call).value)
                       \/ IsHandlerName(ExcInfo(call).value, stack')
                 THEN <<AtTop(stack', LOG005)>>
                 ELSE <<>>]_vars

\* logger.error(exc_info=exc) was entered in `except Exception as exc`, and LOG005 is
\* the last diagnostic, at the call.
C8_Witness ==
    /\ AtCall
    /\ IsLoggingCall(Top.node, logger_name, "error")
    /\ Top.node.args = <<>>
    /\ HasExcInfo(Top.node)
    /\ IsHandlerName(ExcInfo(Top.node).value, stack)
    /\ errors # <<>>
    /\ errors[Len(errors)] = AtTop(stack, LOG005)

(* C9: a call of exception with an exc_info keyword yields exactly one       *)
(* LOG006, at the keyword, if and only if the value of exc_info is a truthy  *)
(* literal or a name equal to the name bound by the current exception        *)
(* handler; another name yields no LOG006.                                   *)
C9_RedundantExcInfo ==
    [][(/\ CallEntered
        /\ IsLoggingCall(stack'[Len(stack')].node, logger_name', "exception")
        /\ HasExcInfo(stack'[Len(stack')].node))
        => LET call == stack'[Len(stack')].node
           IN WithCode(Emitted, "LOG006") =
                 IF \/ TruthyLiteral(ExcInfo(call).value)
                    \/ IsHandlerName(ExcInfo(call).value, stack')
                 THEN <<AtExcInfo(stack', LOG006)>>
                 ELSE <<>>]_vars

\* logger.exception(exc_info=exc) was entered in `except Exception as exc`, and LOG006
\* is the last diagnostic, at the keyword.
C9_Witness ==
    /\ AtCall
    /\ IsLoggingCall(Top.node, logger_name, "exception")
    /\ Top.node.args = <<>>
    /\ HasExcInfo(Top.node)
    /\ IsHandlerName(ExcInfo(Top.node).value, stack)
    /\ errors # <<>>
    /\ errors[Len(errors)] = AtExcInfo(stack, LOG006)

\* The literal False or the literal 0.
FalseOrZero(value) ==
    value.kind = "Constant" /\ value.ctype \in {"bool", "int"} /\ value.n = 0

(* C10: a call of exception with an exc_info keyword whose value is the      *)
(* literal False or the literal 0 yields exactly one LOG007, at the keyword, *)
(* and no LOG006.                                                            *)
C10_ExcInfoFalse ==
    [][(/\ CallEntered
        /\ IsLoggingCall(stack'[Len(stack')].node, logger_name', "exception")
        /\ HasExcInfo(stack'[Len(stack')].node)
        /\ FalseOrZero(ExcInfo(stack'[Len(stack')].node).value))
        => /\ WithCode(Emitted, "LOG007") = <<AtExcInfo(stack', LOG007)>>
           /\ WithCode(Emitted, "LOG006") = <<>>]_vars

\* logger.exception(exc_info=0) was entered in a handler, and LOG007 is the only
\* diagnostic of the traversal so far that is at the keyword.
C10_Witness ==
    /\ AtCall
    /\ IsLoggingCall(Top.node, logger_name, "exception")
    /\ Top.node.args = <<>>
    /\ HasExcInfo(Top.node)
    /\ ExcInfo(Top.node).value = Num(0)
    /\ CurrentHandler(stack) # 0
    /\ errors = <<AtExcInfo(stack, LOG007)>>

\* call is a call of some logger method on a recognized logging entity.
IsLoggingMethodCall(call, logger) ==
    \E m \in logger_methods : IsLoggingCall(call, logger, m)

(* C11: a call on a recognized logging entity yields LOG014, once and at the *)
(* exc_info keyword, only when its method is neither exception nor error,    *)
(* exc_info is a truthy literal and there is no current exception handler;   *)
(* a call of error or exception yields no LOG014, and neither does a call    *)
(* whose exc_info is a name.                                                 *)
C11_ExcInfoOutsideHandler ==
    [][(CallEntered /\ IsLoggingMethodCall(stack'[Len(stack')].node, logger_name'))
        => LET call == stack'[Len(stack')].node
           IN WithCode(Emitted, "LOG014") =
                 IF /\ call.func.attr \notin {"exception", "error"}
                    /\ HasExcInfo(call)
                    /\ TruthyLiteral(ExcInfo(call).value)
                    /\ CurrentHandler(stack') = 0
                 THEN <<AtExcInfo(stack', LOG014)>>
                 ELSE <<>>]_vars

\* call is `r.m(...)`, m a logger method and r the tracked name of the logging module.
IsRootLoggerCall(call) ==
    /\ IsMethodCallOnName(call)
    /\ logging_name # None
    /\ call.func.value.id = logging_name

(* C12: a call of a logger method as an attribute of the tracked name of the *)
(* logging module yields exactly one LOG015, at the start of the call, whose *)
(* message is `LOG015 avoid logging calls on root logger`; the same method   *)
(* called on the tracked logger name, when it differs from the module's      *)
(* name, yields no LOG015.                                                   *)
C12_RootLoggerCall ==
    [][(CallEntered /\ IsMethodCallOnName(stack'[Len(stack')].node))
        => LET call == stack'[Len(stack')].node
           IN /\ IsRootLoggerCall(call) =>
                    WithCode(Emitted, "LOG015") =
                        <<AtTop(stack', <<"LOG015", " avoid logging calls on root logger">>)>>
              /\ (call.func.value.id = logger_name' /\ logger_name' # logging_name) =>
                    WithCode(Emitted, "LOG015") = <<>>]_vars

\* The message argument of a call at path: the second positional argument of log,
\* the first of another method, otherwise the value of the msg keyword.
MessageArgument(call, path) ==
    IF call.func.attr = "log" /\ Len(call.args) >= 2
    THEN [some |-> TRUE, node |-> call.args[2], path |-> Append(path, 3)]
    ELSE IF call.func.attr # "log" /\ Len(call.args) >= 1
    THEN [some |-> TRUE, node |-> call.args[1], path |-> Append(path, 2)]
    ELSE IF FirstKeyword(call.keywords, kw_msg) # 0
    THEN [some |-> TRUE,
          node |-> call.keywords[FirstKeyword(call.keywords, kw_msg)].value,
          path |-> Append(Append(path, 1 + Len(call.args)
                                         + FirstKeyword(call.keywords, kw_msg)), 1)]
    ELSE [some |-> FALSE, node |-> NoKey, path |-> path]

IsStringLiteral(node) == node.kind = "Constant" /\ node.ctype = "str"

RECURSIVE HasNonLiteralOperand(_)
\* Some operand of the chain of + at node is not a string literal.
HasNonLiteralOperand(node) ==
    IF node.kind = "BinOp" /\ node.op = "Add"
    THEN HasNonLiteralOperand(node.left) \/ HasNonLiteralOperand(node.right)
    ELSE ~IsStringLiteral(node)

\* node is a message formatted before the call: an f-string, "...".format(...),
\* "..." % ..., or a chain of + with an operand that is not a string literal.
IsPreFormatted(node) ==
    \/ node.kind = "JoinedStr"
    \/ /\ node.kind = "Call"
       /\ node.func.kind = "Attribute"
       /\ node.func.attr = "format"
       /\ IsStringLiteral(node.func.value)
    \/ node.kind = "BinOp" /\ node.op = "Mod" /\ IsStringLiteral(node.left)
    \/ node.kind = "BinOp" /\ node.op = "Add" /\ HasNonLiteralOperand(node)

(* C13: a call on a recognized logging entity yields LOG011, once and at the *)
(* message argument, if and only if the message argument (second positional  *)
(* of log, first positional of another method, otherwise the msg keyword) is *)
(* an f-string, a .format(...) call on a string literal, a % expression with *)
(* a string literal on the left, or a chain of + with at least one operand   *)
(* that is not a string literal.                                             *)
C13_PreFormatted ==
    [][(CallEntered /\ IsLoggingMethodCall(stack'[Len(stack')].node, logger_name'))
        => LET msg == MessageArgument(stack'[Len(stack')].node, stack'[Len(stack')].path)
           IN WithCode(Emitted, "LOG011") =
                 IF msg.some /\ IsPreFormatted(msg.node)
                 THEN <<Diag(Pos(msg.node, msg.path), LOG011)>>
                 ELSE <<>>]_vars

RECURSIVE LiteralText(_)
\* The text of a message made of string literals joined by +: [some, text].
LiteralText(node) ==
    IF IsStringLiteral(node) THEN [some |-> TRUE, text |-> node.s]
    ELSE IF node.kind = "BinOp" /\ node.op = "Add"
            /\ LiteralText(node.left).some /\ LiteralText(node.right).some
    THEN [some |-> TRUE, text |-> LiteralText(node.left).text \o LiteralText(node.right).text]
    ELSE [some |-> FALSE, text |-> <<>>]

RECURSIVE Required(_, _)
\* The arguments the positional placeholders of s need, from index i on: for each
\* placeholder other than %%, 1, plus 1 for a * width, plus 1 for a .* precision.
Required(s, i) ==
    IF i > Len(s) THEN 0
    ELSE IF ~modpos_match(s, i).ok THEN Required(s, i + 1)
    ELSE IF modpos_match(s, i).raw THEN Required(s, modpos_match(s, i).end)
    ELSE 1 + (IF modpos_match(s, i).minwidth THEN 1 ELSE 0)
           + (IF modpos_match(s, i).precision THEN 1 ELSE 0)
           + Required(s, modpos_match(s, i).end)

\* The message of the call is one of its positional arguments.
HasPositionalMessage(call) ==
    IF call.func.attr = "log" THEN Len(call.args) >= 2 ELSE Len(call.args) >= 1

\* The positional arguments after the message (after the level and the message of log).
Supplied(call) == Len(call.args) - (IF call.func.attr = "log" THEN 2 ELSE 1)

HasStarred(call) == \E i \in 1..Len(call.args) : call.args[i].kind = "Starred"

\* The only positional argument after the message is a dict literal whose keys are all
\* string literals.
HasLiteralDict(call) ==
    /\ Supplied(call) = 1
    /\ call.args[Len(call.args)].kind = "Dict"
    /\ \A i \in 1..Len(call.args[Len(call.args)].keys) :
          IsStringLiteral(call.args[Len(call.args)].keys[i])

\* The rule of the named placeholders applies to the call, whose message is text.
NamedRule(call, text) == HasLiteralDict(call) /\ modnames(text) # {}

(* C14: a call on a recognized logging entity yields LOG012, once and at the *)
(* message argument, if and only if the message is positional, is a          *)
(* non-empty text of string literals, no positional argument is starred, the *)
(* rule of the named placeholders does not apply, and the number of          *)
(* arguments its positional placeholders require is positive and differs     *)
(* from the number of positional arguments after the message; in particular  *)
(* none for a message passed as the msg keyword or with a starred argument.  *)
C14_PositionalPlaceholders ==
    [][(CallEntered /\ IsLoggingMethodCall(stack'[Len(stack')].node, logger_name'))
        => LET call == stack'[Len(stack')].node
               msg == MessageArgument(call, stack'[Len(stack')].path)
               text == LiteralText(msg.node).text
           IN WithCode(Emitted, "LOG012") =
                 IF /\ HasPositionalMessage(call)
                    /\ LiteralText(msg.node).some
                    /\ text # <<>>
                    /\ ~HasStarred(call)
                    /\ ~NamedRule(call, text)
                    /\ Required(text, 1) > 0
                    /\ Required(text, 1) # Supplied(call)
                 THEN <<Diag(Pos(msg.node, msg.path),
                             LOG012(Required(text, 1), Supplied(call)))>>
                 ELSE <<>>]_vars

\* logging.info("%*d", a) was entered: two arguments required, one supplied, and LOG012
\* is the last diagnostic, at the message.
C14_Witness ==
    /\ AtCall
    /\ IsLoggingCall(Top.node, logger_name, "info")
    /\ Top.node.keywords = <<>>
    /\ Top.node.args = <<Str(S_STAR), Name("a")>>
    /\ Required(S_STAR, 1) = 2
    /\ errors # <<>>
    /\ errors[Len(errors)] = Diag(Append(Top.path, 2), LOG012(2, 1))

\* The text of LOG013 for the keys listed in `order`: `key` for one key, `keys` for more.
KeysMessage(mistake, order) ==
    <<"LOG013", " formatting error: ", mistake, " key",
      IF Len(order) = 1 THEN "" ELSE "s", ": ">> \o JoinKeys(order)

\* The keys of the dict literal that ends the positional arguments of the call.
DictKeys(call) ==
    {call.args[Len(call.args)].keys[i].s : i \in 1..Len(call.args[Len(call.args)].keys)}

(* C15: for a call on a recognized logging entity whose positional message   *)
(* is a text of string literals with at least one named placeholder and      *)
(* whose only positional argument after the message is a dict literal with   *)
(* string literal keys: the names of the message that are not keys are       *)
(* listed, all of them, by exactly one LOG013 `missing` at the message when  *)
(* there are any; the keys that are not names of the message are listed by   *)
(* exactly one LOG013 `unreferenced` at the dict when there are any; no      *)
(* LOG013 when the two sets are equal; the word is `key` for one key listed  *)
(* and `keys` otherwise.                                                     *)
C15_NamedPlaceholders ==
    [][(/\ CallEntered
        /\ IsLoggingMethodCall(stack'[Len(stack')].node, logger_name')
        /\ HasPositionalMessage(stack'[Len(stack')].node)
        /\ LET call == stack'[Len(stack')].node
               msg == MessageArgument(call, stack'[Len(stack')].path)
           IN LiteralText(msg.node).some /\ NamedRule(call, LiteralText(msg.node).text))
        => LET call == stack'[Len(stack')].node
               path == stack'[Len(stack')].path
               msg == MessageArgument(call, path)
               names == modnames(LiteralText(msg.node).text)
               missing == names \ DictKeys(call)
               unreferenced == DictKeys(call) \ names
           IN \E m \in Orders(missing), u \in Orders(unreferenced) :
                 WithCode(Emitted, "LOG013") =
                    (IF missing # {}
                     THEN <<Diag(Pos(msg.node, msg.path), KeysMessage("missing", m))>>
                     ELSE <<>>)
                    \o (IF unreferenced # {}
                        THEN <<Diag(Append(path, 1 + Len(call.args)),
                                    KeysMessage("unreferenced", u))>>
                        ELSE <<>>)]_vars

\* logging.log(10, "%(k)s", {"j": a}) was entered: LOG013 `missing key: 'k'` at the
\* message and then LOG013 `unreferenced key: 'j'` at the dict end the diagnostics.
C15_Witness ==
    /\ AtCall
    /\ IsLoggingCall(Top.node, logger_name, "log")
    /\ Top.node.keywords = <<>>
    /\ Top.node.args = <<Num(10), Str(S_NAMED), Dict(<<Str(<<"j">>)>>, <<Name("a")>>)>>
    /\ Len(errors) >= 2
    /\ errors[Len(errors) - 1] = Diag(Append(Top.path, 3), KeysMessage("missing", <<<<"k">>>>))
    /\ errors[Len(errors)] = Diag(Append(Top.path, 4), KeysMessage("unreferenced", <<<<"j">>>>))

\* The indices of 1..n that satisfy Test, in increasing order.
Indices(n, Test(_)) == SelectSeq([i \in 1..n |-> i], Test)

\* One LOG003 for each string literal key of the dict literal at dictpath that is a
\* LogRecord attribute, in the order of the keys, at the key (the keys that are nodes
\* are the first children of the dict; the key of a ** entry is not a node).
ReservedKeys(dict, dictpath) ==
    LET reserved(i) == IsStringLiteral(dict.keys[i]) /\ dict.keys[i].s \in logrecord_attributes
        idx == Indices(Len(dict.keys), reserved)
    IN [n \in 1..Len(idx) |->
          Diag(Append(dictpath,
                      Cardinality({k \in 1..idx[n] : dict.keys[k].kind # "NoKey"})),
               LOG003(dict.keys[idx[n]].s))]

\* One LOG003 for each named keyword of the dict(...) call at callpath that is a
\* LogRecord attribute, at the keyword.
ReservedKeywords(call, callpath) ==
    LET reserved(j) == /\ call.keywords[j].arg # NoArg
                       /\ call.keywords[j].arg \in logrecord_attributes
        idx == Indices(Len(call.keywords), reserved)
    IN [n \in 1..Len(idx) |->
          Diag(Append(callpath, 1 + Len(call.args) + idx[n]),
               LOG003(call.keywords[idx[n]].arg))]

HasExtra(call) == FirstKeyword(call.keywords, kw_extra) # 0
Extra(call) == call.keywords[FirstKeyword(call.keywords, kw_extra)]
ExtraValuePath(call, path) ==
    Append(Append(path, 1 + Len(call.args) + FirstKeyword(call.keywords, kw_extra)), 1)

(* C16: for a call on a recognized logging entity with an extra keyword:     *)
(* when its value is a dict literal, one LOG003 per literal key that is a    *)
(* LogRecord attribute, at the key and in the order of the keys; when its    *)
(* value is a call of dict, one LOG003 per named keyword that is a LogRecord *)
(* attribute, at the keyword; for any other value, for a dict call that     *)
(* only unpacks a mapping, or when no key is reserved, no LOG003.            *)
C16_ExtraKeys ==
    [][(/\ CallEntered
        /\ IsLoggingMethodCall(stack'[Len(stack')].node, logger_name')
        /\ HasExtra(stack'[Len(stack')].node))
        => LET call == stack'[Len(stack')].node
               value == Extra(call).value
               valuepath == ExtraValuePath(call, stack'[Len(stack')].path)
           IN WithCode(Emitted, "LOG003") =
                 IF value.kind = "Dict" THEN ReservedKeys(value, valuepath)
                 ELSE IF /\ value.kind = "Call"
                         /\ value.func.kind = "Name"
                         /\ value.func.id = "dict"
                 THEN ReservedKeywords(value, valuepath)
                 ELSE <<>>]_vars

\* A call with extra={"msg": a, **a, "k": a, "name": a} was entered: LOG003 for msg at
\* the first key and LOG003 for name at the third key node, in this order.
C16_Witness ==
    /\ AtCall
    /\ IsLoggingMethodCall(Top.node, logger_name)
    /\ HasExtra(Top.node)
    /\ Extra(Top.node).value.kind = "Dict"
    /\ Len(Extra(Top.node).value.keys) = 4
    /\ WithCode(errors, "LOG003") =
          <<Diag(Append(ExtraValuePath(Top.node, Top.path), 1), LOG003(kw_msg)),
            Diag(Append(ExtraValuePath(Top.node, Top.path), 3),
                 LOG003(<<"n", "a", "m", "e">>))>>

\* call is a call of the logging module's getLogger: getLogger on the tracked name of
\* the module, or the bare name after an unaliased `from logging import getLogger`.
IsGetLoggerCall(call) ==
    \/ /\ call.func.kind = "Attribute"
       /\ call.func.attr = "getLogger"
       /\ call.func.value.kind = "Name"
       /\ logging_name # None
       /\ call.func.value.id = logging_name
    \/ /\ call.func.kind = "Name"
       /\ call.func.id = "getLogger"
       /\ FromLoggingImported("getLogger")
       /\ FromImportsGet(from_imports, "getLogger") = "logging"

(* C17: a call of the logging module's getLogger yields exactly one LOG002,  *)
(* at its first positional argument, if and only if that argument is the     *)
(* simple name __file__ or __cached__, inside a function as well as outside; *)
(* a getLogger that is not the logging module's (an attribute of another     *)
(* name, or a bare name not imported from logging) yields none.              *)
C17_GetLoggerArgument ==
    [][(CallEntered /\ NamedGetLogger(stack'[Len(stack')].node))
        => LET call == stack'[Len(stack')].node
           IN /\ IsGetLoggerCall(call) =>
                    WithCode(Emitted, "LOG002") =
                        IF /\ call.args # <<>>
                           /\ call.args[1].kind = "Name"
                           /\ call.args[1].id \in {"__file__", "__cached__"}
                        THEN <<Diag(Append(stack'[Len(stack')].path, 2), LOG002)>>
                        ELSE <<>>
              /\ (\/ /\ call.func.kind = "Attribute"
                     /\ call.func.value.kind = "Name"
                     /\ call.func.value.id # logging_name
                  \/ /\ call.func.kind = "Name"
                     /\ ~FromLoggingImported(call.func.id))
                    => WithCode(Emitted, "LOG002") = <<>>]_vars

\* The step enters a node of the kind: Visitor.visit pushes it and its visit_ method
\* examines it.
Entered(kind) ==
    /\ Len(stack') = Len(stack) + 1
    /\ stack'[Len(stack')].node.kind = kind

\* The places of WARN among the names of an import statement, in order.
WarnAliases(s) == Indices(Len(s.names), LAMBDA j : s.names[j].name = "WARN")

\* attr is `r.WARN` with r the tracked name of the logging module.
IsLoggingWarn(attr) ==
    /\ attr.attr = "WARN"
    /\ attr.value.kind = "Name"
    /\ logging_name # None
    /\ attr.value.id = logging_name

\* What the attribute on top of stk must add: LOG009 at the attribute for the logging
\* module's WARN, nothing for WARN on another name.
WarnAccess(stk) ==
    IF IsLoggingWarn(stk[Len(stk)].node) THEN <<AtTop(stk, LOG009)>> ELSE <<>>

(* C18, as the specification states it: every `from logging import WARN`,    *)
(* renamed or not, yields exactly one LOG009 at the imported symbol; every   *)
(* attribute `r.WARN` with r the tracked name of the logging module yields   *)
(* exactly one LOG009 at the attribute, and WARN on another name none.       *)
C18_WarnAtSymbol ==
    [][/\ (Entered("ImportFrom") /\ IsFromLoggingImport(stack'[Len(stack')].node))
            => LET s == stack'[Len(stack')].node
               IN Emitted = [n \in 1..Len(WarnAliases(s)) |->
                                Diag(Append(stack'[Len(stack')].path, WarnAliases(s)[n]),
                                     LOG009)]
       /\ Entered("Attribute") => Emitted = WarnAccess(stack')]_vars

(* C18, amended: every `from logging import WARN`, renamed or not, yields    *)
(* exactly one LOG009, at the imported symbol when the interpreter is 3.10   *)
(* or later and at the import statement otherwise; every attribute `r.WARN`  *)
(* with r the tracked name of the logging module yields exactly one LOG009   *)
(* at the attribute, and WARN on another name none.                          *)
C18_WarnByVersion ==
    [][/\ (Entered("ImportFrom") /\ IsFromLoggingImport(stack'[Len(stack')].node))
            => LET s == stack'[Len(stack')].node
               IN Emitted = [n \in 1..Len(WarnAliases(s)) |->
                                Diag(IF version_ge_310
                                     THEN Append(stack'[Len(stack')].path, WarnAliases(s)[n])
                                     ELSE stack'[Len(stack')].path,
                                     LOG009)]
       /\ Entered("Attribute") => Emitted = WarnAccess(stack')]_vars

\* `from logging import WARN as renamed` was entered on an interpreter older than 3.10,
\* and LOG009 is reported at the statement.
C18_Witness ==
    /\ pc = "visit"
    /\ stack # <<>>
    /\ Top.next = 0
    /\ IsFromLoggingImport(Top.node)
    /\ Top.node.names = <<alias("WARN", "renamed")>>
    /\ ~version_ge_310
    /\ errors = <<Diag(Top.path, LOG009)>>

(* C19: every call of warn on a recognized logging entity (the tracked name  *)
(* of the logging module or the bound logger) yields exactly one LOG008, at  *)
(* the start of the call; a call of warning, or of any other logger method,  *)
(* yields none.                                                              *)
C19_WarnMethod ==
    [][(CallEntered /\ IsLoggingMethodCall(stack'[Len(stack')].node, logger_name'))
        => WithCode(Emitted, "LOG008") =
              IF stack'[Len(stack')].node.func.attr = "warn"
              THEN <<AtTop(stack', LOG008)>>
              ELSE <<>>]_vars

\* logger.warn(...) was entered with `logger` the bound logger, and the last diagnostic
\* is LOG008 at the call.
C19_Witness ==
    /\ AtCall
    /\ IsMethodCallOnName(Top.node)
    /\ Top.node.func.attr = "warn"
    /\ logger_name = "logger"
    /\ Top.node.func.value.id = logger_name
    /\ WithCode(errors, "LOG008") # <<>>
    /\ WithCode(errors, "LOG008")[Len(WithCode(errors, "LOG008"))] = AtTop(stack, LOG008)

\* A run is about to start: Visitor.visit has not been called on the tree yet.
RunStarting == pc = "visit" /\ stack = <<>>

\* A run after the first is over: its generator is exhausted.
LaterRunOver == run > 1 /\ pc = "done"

C21_FlattenStrChain ==
    flattened # <<>> =>
        /\ flattened[1].some = ~HasNonLiteralOperand(expr)
        /\ flattened[1].some => flattened[1].text = LiteralText(expr).text
        /\ (expr = Bytes(<<"C">>)) => ~flattened[1].some

\* flatten_str_chain was given "A" + ("B" + "A"), a chain nested on the right, and
\* returned "ABA".
C21_Witness ==
    /\ expr = BinOp(Str(<<"A">>), "Add", BinOp(Str(<<"B">>), "Add", Str(<<"A">>)))
    /\ flattened = <<[some |-> TRUE, text |-> <<"A", "B", "A">>]>>

(* C22: for every binary addition e, is_add_chain_with_non_str(e) is true    *)
(* exactly when some operand of the chain is not a string literal, so that   *)
(* exactly one of is_add_chain_with_non_str(e) and                           *)
(* `flatten_str_chain(e) is not None` holds, whatever the operands, those    *)
(* that are binary operations with another operator than + included.         *)
C22_Complementary ==
    (expr.kind = "BinOp" /\ expr.op = "Add" /\ add_chain # <<>>) =>
        /\ add_chain[1] = HasNonLiteralOperand(expr)
        /\ flattened # <<>> => (add_chain[1] # flattened[1].some)

\* a is an initial part of b.
IsPrefixOf(a, b) == Len(a) <= Len(b) /\ a = SubSeq(b, 1, Len(a))

\* The step enters a node: Visitor.visit pushes it on the stack.
EntersNode == Len(stack') = Len(stack) + 1

\* The triples of the diagnostics ds, without the plugin's type.
Triples(ds) == [i \in 1..Len(ds) |-> [pos |-> ds[i].pos, msg |-> ds[i].msg]]

IsBareLoggingCall(call) ==
    /\ call.func.kind = "Name"
    /\ call.func.id \in
          {"debug", "info", "warn", "warning", "error", "critical", "log", "exception"}
    /\ FromLoggingImported(call.func.id)

(* C24: a call of a bare logger-method name brought in by an unaliased       *)
(* `from logging import <method>` is examined by the call-site rules like an *)
(* attribute call on the logging module: a bare warn(...) yields LOG008 at   *)
(* the call, and a bare exception(...) outside any handler yields LOG004 at  *)
(* the call.                                                                 *)
C24_BareMethodCall ==
    [][(CallEntered /\ IsBareLoggingCall(stack'[Len(stack')].node))
        => LET call == stack'[Len(stack')].node
           IN /\ call.func.id = "warn"
                    => WithCode(Emitted, "LOG008") = <<AtTop(stack', LOG008)>>
              /\ (call.func.id = "exception" /\ CurrentHandler(stack') = 0)
                    => WithCode(Emitted, "LOG004") = <<AtTop(stack', LOG004)>>]_vars

\* The call has a positional message that is a non-empty text of string literals, no
\* starred argument, and one positional argument after the message, a dict literal.
HasMessageAndDict(call, msg) ==
    /\ HasPositionalMessage(call)
    /\ LiteralText(msg.node).some
    /\ LiteralText(msg.node).text # <<>>
    /\ ~HasStarred(call)
    /\ Supplied(call) = 1
    /\ call.args[Len(call.args)].kind = "Dict"

(* C25: for a call on a recognized logging entity whose message is followed  *)
(* by one dict literal: when the message has a named placeholder and every   *)
(* key of the dict is a string literal, no LOG012 is reported, even if the   *)
(* message also has positional placeholders that require another number of   *)
(* arguments than the one supplied; when the dict has a key that is not a    *)
(* literal or unpacks a mapping, or the message has no named placeholder,    *)
(* the positional count is applied instead: LOG012 when the number required  *)
(* is positive and is not one, and no LOG013.                                *)
C25_NamedSupersedesPositional ==
    [][(/\ CallEntered
        /\ IsLoggingMethodCall(stack'[Len(stack')].node, logger_name')
        /\ HasMessageAndDict(stack'[Len(stack')].node,
                             MessageArgument(stack'[Len(stack')].node,
                                             stack'[Len(stack')].path)))
        => LET call == stack'[Len(stack')].node
               msg == MessageArgument(call, stack'[Len(stack')].path)
               text == LiteralText(msg.node).text
               dict == call.args[Len(call.args)]
           IN IF /\ modnames(text) # {}
                 /\ \A i \in 1..Len(dict.keys) : IsStringLiteral(dict.keys[i])
              THEN WithCode(Emitted, "LOG012") = <<>>
              ELSE /\ WithCode(Emitted, "LOG013") = <<>>
                   /\ WithCode(Emitted, "LOG012") =
                         IF Required(text, 1) > 0 /\ Required(text, 1) # 1
                         THEN <<Diag(Pos(msg.node, msg.path),
                                     LOG012(Required(text, 1), 1))>>
                         ELSE <<>>]_vars

\* logging.info("%(k)s%d%d", {"k": a}) was entered: the positional placeholders require
\* two arguments and one is supplied, the dict names the one key of the message, and
\* neither LOG012 nor LOG013 was appended.
C25_Witness ==
    /\ AtCall
    /\ IsLoggingCall(Top.node, logger_name, "info")
    /\ Top.node.args = <<Str(S_MIXED), Dict(<<Str(<<"k">>)>>, <<Name("a")>>)>>
    /\ Required(S_MIXED, 1) = 2
    /\ errors # <<>>
    /\ WithCode(errors, "LOG012") = <<>>
    /\ WithCode(errors, "LOG013") = <<>>

\* The step enters a call of the logging module's getLogger that is the value assigned
\* to one simple name, outside every function definition.
EntersLoggerBinding ==
    /\ CallEntered
    /\ IsGetLoggerCall(stack'[Len(stack')].node)
    /\ stack # <<>>
    /\ Top.node.kind = "Assign"
    /\ Top.node.value = stack'[Len(stack')].node
    /\ Top.next = Len(Top.node.targets)
    /\ Len(Top.node.targets) = 1
    /\ Top.node.targets[1].kind = "Name"
    /\ ~EnclosedByFunction(stack')

(* C26: once set, the bound-logger name is never reset to none for the rest  *)
(* of the traversal; it is the target of the most recent qualifying          *)
(* getLogger assignment in traversal order (each such assignment overwrites  *)
(* it, no other step changes it), so that assigning something that is not a  *)
(* getLogger call to the variable does not clear it and a later call of a    *)
(* logger method on the name is still checked (warn still yields LOG008).    *)
C26_LoggerNameKept ==
    [][/\ logger_name # None => logger_name' # None
       /\ logger_name' = IF EntersLoggerBinding THEN Top.node.targets[1].id
                         ELSE logger_name
       /\ (/\ CallEntered
           /\ logger_name # None
           /\ IsMethodCallOnName(stack'[Len(stack')].node)
           /\ stack'[Len(stack')].node.func.attr = "warn"
           /\ stack'[Len(stack')].node.func.value.id = logger_name)
            => WithCode(Emitted, "LOG008") = <<AtTop(stack', LOG008)>>]_vars

\* After `logger = logging.getLogger(__name__)` and then `logger = logging.makeLogger()`,
\* logger.warn(...) was entered: the name is still tracked and LOG008 was appended.
C26_Witness ==
    /\ AtCall
    /\ Len(tree.body) = 4
    /\ tree.body[2] = bind_logger
    /\ tree.body[3] = Assign(<<Name("logger")>>, MethodCall("logging", "makeLogger", <<>>, <<>>))
    /\ Len(stack) = 3
    /\ stack[2].node = tree.body[4]
    /\ Top.node.func.attr = "warn"
    /\ Top.node.func.value.id = "logger"
    /\ logger_name = "logger"
    /\ WithCode(errors, "LOG008") = <<AtTop(stack, LOG008)>>

RECURSIVE NodeAt(_, _)
\* The node of the tree under `node` that the path of child indices leads to.
NodeAt(node, path) ==
    IF path = <<>> THEN node ELSE NodeAt(Children(node)[Head(path)], Tail(path))

\* The stack is the path from the root of the tree to the node being visited: the
\* root first, then each node a child of the one before, the child being visited.
StackIsPath ==
    \A i \in 1..Len(stack) :
        /\ Len(stack[i].path) = i - 1
        /\ stack[i].node = NodeAt(tree, stack[i].path)
        /\ i > 1 => /\ SubSeq(stack[i].path, 1, i - 2) = stack[i - 1].path
                    /\ stack[i].path[i - 1] = stack[i - 1].next + 1

\* A step of the traversal: a node is entered, pushed as the next child not yet visited
\* of the node on top (the root on the empty stack); or a node is left, popped once all
\* its children were visited, which counts one more child visited for its parent; the
\* stack does not change otherwise.
StackStep ==
    \/ /\ EntersNode
       /\ SubSeq(stack', 1, Len(stack)) = stack
       /\ stack'[Len(stack')].next = 0
       /\ stack'[Len(stack')].path =
             IF stack = <<>> THEN <<>>
             ELSE Append(stack[Len(stack)].path, stack[Len(stack)].next + 1)
       /\ stack = <<>> \/ stack[Len(stack)].next < Len(Children(stack[Len(stack)].node))
    \/ /\ Len(stack') = Len(stack) - 1
       /\ stack[Len(stack)].next = Len(Children(stack[Len(stack)].node))
       /\ \A i \in 1..Len(stack') :
             /\ stack'[i].node = stack[i].node
             /\ stack'[i].path = stack[i].path
             /\ stack'[i].next = IF i = Len(stack') THEN stack[i].next + 1 ELSE stack[i].next
    \/ stack' = stack

(* C27: at every point of the traversal the stack is the sequence of nodes   *)
(* on the path from the root of the tree to the node being visited, each     *)
(* node pushed on entry and popped on exit, so that while a call is checked  *)
(* the top of the stack is the call and the element below it its direct      *)
(* parent; every child of a node is entered once, in turn, before the node   *)
(* is left; and the traversal of the tree terminates, with the stack empty   *)
(* from then on.                                                             *)
C27_StackIsPathAndTerminates ==
    /\ [](StackIsPath /\ (pc # "visit" => stack = <<>>))
    /\ [][StackStep]_vars
    /\ [][CallEntered =>
            /\ stack # <<>>
            /\ stack'[Len(stack')].node \in
                  {Children(Top.node)[k] : k \in 1..Len(Children(Top.node))}]_vars
    /\ <>[](pc = "done" /\ stack = <<>>)

\* A call that is the value of an assignment inside a function was entered: the call is
\* on top of the stack, the assignment below it, the function below the assignment and
\* the module at the bottom.
C27_Witness ==
    /\ AtCall
    /\ Len(stack) = 4
    /\ stack[1].node = tree
    /\ stack[2].node.kind = "FunctionDef"
    /\ stack[3].node.kind = "Assign"
    /\ stack[3].node.value = Top.node
    /\ stack[3].next = Len(stack[3].node.targets)

(* C28: only a from-import of the top-level logging module populates the     *)
(* table of from-imports: every name in the table was imported without a     *)
(* rename by a `from logging import` of level 0 and is mapped to `logging`,  *)
(* so that `from X import Y` with another X and a relative import such as    *)
(* `from .logging import Y` add no entry, and a call of a bare name that no  *)
(* such import brings in is never flagged.                                   *)
C28_FromImportTable ==
    [][/\ \A k \in DOMAIN from_imports' :
             /\ from_imports'[k] = "logging"
             /\ FromLoggingImported(k)
       /\ (/\ CallEntered
           /\ stack'[Len(stack')].node.func.kind = "Name"
           /\ ~FromLoggingImported(stack'[Len(stack')].node.func.id))
            => Emitted = <<>>]_vars

\* The local name that the import statement s gives the logging module: that of the
\* last `logging [as x]` among its names, or `current` when there is none.
LoggingLocalName(s, current) ==
    LET places == {j \in 1..Len(s.names) : s.names[j].name = "logging"}
        last == CHOOSE j \in places : \A k \in places : k <= j
    IN IF places = {} THEN current
       ELSE IF s.names[last].asname = None THEN "logging"
       ELSE s.names[last].asname

(* C29: the tracked name of the logging module is one slot that holds the    *)
(* local name of the most recently traversed `import logging [as x]`,        *)
(* wherever the statement is (module level or inside a function): an import  *)
(* of logging overwrites it, an import of any other module (among them       *)
(* `import logging.handlers`) and every other step leave it; after a second  *)
(* import under another name, attribute calls and WARN accesses on the       *)
(* earlier name are no longer recognized.                                    *)
C29_LoggingNameSlot ==
    [][/\ logging_name' = IF Entered("Import")
                          THEN LoggingLocalName(stack'[Len(stack')].node, logging_name)
                          ELSE logging_name
       /\ (/\ Entered("Attribute")
           /\ stack'[Len(stack')].node.value.kind = "Name"
           /\ stack'[Len(stack')].node.value.id # logging_name)
            => Emitted = <<>>
       /\ (/\ CallEntered
           /\ IsMethodCallOnName(stack'[Len(stack')].node)
           /\ stack'[Len(stack')].node.func.value.id # logging_name
           /\ stack'[Len(stack')].node.func.value.id # logger_name')
            => Emitted = <<>>]_vars

\* After `import logging` and then `import logging as lm` inside a function, the call
\* logging.warn() was entered at module level: the slot holds `lm` and the call on the
\* earlier name added no diagnostic.
C29_Witness ==
    /\ AtCall
    /\ Len(stack) = 3
    /\ tree.body[1] = import_logging
    /\ Len(tree.body) = 3
    /\ tree.body[2].kind = "FunctionDef"
    /\ import_logging_as_lm \in Statements(tree)
    /\ stack[2].node = tree.body[3]
    /\ Top.node.func.attr = "warn"
    /\ Top.node.func.value.id = "logging"
    /\ logging_name = "lm"
    /\ errors = <<>>

\* The diagnostics of ds that carry one of the rule codes.
WithCodeIn(ds, codes) == SelectSeq(ds, LAMBDA d : d.msg[1] \in codes)

(* C30: a call yields at most one diagnostic among LOG005, LOG006, LOG007    *)
(* and LOG014: LOG006 and LOG007 only for exception, LOG005 only for error   *)
(* inside a handler, LOG014 only for a call that is neither an exception     *)
(* call nor an error call inside a handler, and never LOG006 together with   *)
(* LOG007.                                                                   *)
C30_OneExcInfoDiagnostic ==
    [][CallEntered =>
        LET call == stack'[Len(stack')].node
            exception == call.func.kind = "Attribute" /\ call.func.attr = "exception"
            error_handled == /\ call.func.kind = "Attribute"
                             /\ call.func.attr = "error"
                             /\ CurrentHandler(stack') # 0
        IN /\ Len(WithCodeIn(Emitted, {"LOG005", "LOG006", "LOG007", "LOG014"})) <= 1
           /\ WithCodeIn(Emitted, {"LOG006", "LOG007"}) # <<>> => exception
           /\ WithCode(Emitted, "LOG005") # <<>> => error_handled
           /\ WithCode(Emitted, "LOG014") # <<>> => ~exception /\ ~error_handled
           /\ WithCode(Emitted, "LOG006") = <<>> \/ WithCode(Emitted, "LOG007") = <<>>]_vars

\* logging.exception(..., exc_info=True) was entered outside any handler: exc_info is a
\* truthy literal and there is no handler, and of the four rules only LOG006 reported.
C30_Witness ==
    /\ AtCall
    /\ IsLoggingCall(Top.node, logger_name, "exception")
    /\ CurrentHandler(stack) = 0
    /\ HasExcInfo(Top.node)
    /\ TruthyLiteral(ExcInfo(Top.node).value)
    /\ WithCodeIn(errors, {"LOG005", "LOG006", "LOG007", "LOG014"})
          = <<AtExcInfo(stack, LOG006)>>
====
